---- MODULE Spec2Model ----
(***************************************************************************)
(* Collateral valuation assistant: the slot-filling dialogue of            *)
(* core/agent.py, its two drivers (process_input of app.py and the CLI     *)
(* loop of agent.py) and the valuation tool of core/tools.py.              *)
(*                                                                         *)
(* Encoding.  A user reply is a text token.  The slot dictionary of the    *)
(* session is the record `slots`: field v maps every text or boolean slot  *)
(* name to its stored value (Absent when the key is not in the dict; the   *)
(* Python booleans True/False are written "True"/"False"), and the keys    *)
(* that hold other types are fields of their own (section_dimensions,      *)
(* section_index, awaiting_width, __expected_choices__, _confirmed).       *)
(* The transcript is append-only and the code only ever reads its last     *)
(* element, so `messages` keeps the part of state["messages"] appended by  *)
(* the latest call of a driver: the user message and the assistant         *)
(* messages that followed it.                                              *)
(*                                                                         *)
(* The functions of core/calculation_engine.py are also called on their   *)
(* own: `call` is the latest such call with its arguments and `ret` the    *)
(* value it returned.  Python floats are modelled as exact rationals.      *)
(***************************************************************************)
EXTENDS Integers, Sequences, FiniteSets, TLC

VARIABLES messages, slots, asked, turn, offScript, req, toolOut, call, ret

vars == <<messages, slots, asked, turn, offScript, req, toolOut, call, ret>>

(***************************************************************************)
(* Bounds of the model.                                                    *)
(***************************************************************************)
\* replies of one session, typed while slots are being collected, that are
\* not what the prompt asks for
MaxOffScript == 1
\* length of the asked list beyond which no further reply is modelled
MaxAsked == 25
\* number of buildings of a request handed directly to the valuation tool
MaxBuildings == 2

(***************************************************************************)
(* Static option sets (agent.py, section 2) and slot tables (section 4).   *)
(***************************************************************************)
VALID_CATEGORIES ==
    << "Higher Villa", "Multi-Story Building", "Apartment / Condominium",
       "MPH & Factory Building", "Fuel Station", "Coffee Washing Site",
       "Green House" >>

VALID_USE == << "Residential", "Commercial" >>

VALID_TOWN_CLASSES ==
    << "Finfinne Border A1", "Surrounding Finfine B1", "Surrounding Finfine B2",
       "Surrounding Finfine B3", "Major Cities C1", "Major Cities C2",
       "Secondary Major Cities D1", "Secondary Major Cities D2",
       "Tertiary Towns E1", "Tertiary Towns E2" >>

\* MATERIAL_EXAMPLES[comp].split("; ")
MATERIAL_EXAMPLES(comp) ==
    CASE comp = "foundation" -> << "Reinforced concrete", "Stone", "Mud block" >>
      [] comp = "roof"       -> << "Corrugated iron", "Tile", "Concrete slab" >>
      [] comp = "floor"      -> << "Ceramic", "Wood", "Concrete" >>
      [] comp = "ceiling"    -> << "Gypsum board", "Wood", "Concrete" >>
      [] comp = "metal work" -> << "Aluminum", "Steel", "Iron" >>
      [] comp = "sanitary"   -> << "Standard", "Premium", "Basic" >>
      [] OTHER               -> << "Reinforced concrete", "Stone", "Mud block" >>

\* material_mappings.json is keyed by mapping-family names (data_loader.py
\* reads "villa_and_multi_story_mapping", "mph_factory_mapping"), never by a
\* category, so MATERIAL_MAPPINGS.get(category, {}) is empty and the fixed
\* fallback list is returned for every category.
get_material_components_for_category(cat) ==
    << "foundation", "roof", "floor", "ceiling", "metal work", "sanitary" >>

\* the slot list with a plot grade asked of the user after the plot area
BASE_REQUIRED_SLOTS_IN_ORDER_with_plot_grade ==
    << "collateral_type", "building_category", "prop_town", "gen_use",
       "plot_area_sqm", "plot_grade", "length", "width", "num_floors", "has_basement",
       "is_under_construction", "incomplete_components", "has_elevator",
       "elevator_stops", "num_sections", "section_dimensions", "mcf", "pef" >>

BASE_REQUIRED_SLOTS_IN_ORDER ==
    << "collateral_type", "building_category", "prop_town", "gen_use",
       "plot_area_sqm", "length", "width", "num_floors", "has_basement",
       "is_under_construction", "incomplete_components", "has_elevator",
       "elevator_stops", "num_sections", "section_dimensions", "mcf", "pef" >>

SPECIAL_CATEGORY_BASE_SLOTS == << "prop_town" >>

SPECIAL_CATEGORIES == << "Fuel Station", "Coffee Washing Site", "Green House" >>

CATEGORY_SPECIAL_SLOTS(cat) ==
    CASE cat = "MPH & Factory Building" -> << "height_meters", "has_basement" >>
      [] cat = "Fuel Station" ->
            << "site_preparation_area", "forecourt_area", "canopy_area",
               "num_pump_islands", "num_ugt_30m3", "num_ugt_50m3" >>
      [] cat = "Coffee Washing Site" ->
            << "cherry_hopper_area", "fermentation_tanks_area",
               "washing_channels_length", "coffee_drier_area" >>
      [] cat = "Green House" ->
            << "greenhouse_area", "in_farm_road_km", "borehole_depth",
               "land_preparation_area" >>
      [] OTHER -> << >>

\* keys of SPECIAL_SLOT_EXAMPLES
SPECIAL_SLOT_EXAMPLES ==
    { "height_meters", "has_basement", "site_preparation_area", "forecourt_area",
      "canopy_area", "num_pump_islands", "num_ugt_30m3", "num_ugt_50m3",
      "cherry_hopper_area", "fermentation_tanks_area", "washing_channels_length",
      "coffee_drier_area", "greenhouse_area", "in_farm_road_km", "borehole_depth",
      "land_preparation_area" }

(***************************************************************************)
(* Sequences as Python lists.                                              *)
(***************************************************************************)
Range(s) == { s[i] : i \in 1..Len(s) }

Mem(x, s) == \E i \in 1..Len(s) : s[i] = x

\* [x for x in s if x not in drop]
Without(s, drop) ==
    LET keep(x) == x \notin drop IN SelectSeq(s, keep)

\* the order-preserving de-duplication loop of current_required_slots
RECURSIVE Dedup(_, _)
Dedup(s, seen) ==
    IF s = << >> THEN << >>
    ELSE IF Head(s) \in seen THEN Dedup(Tail(s), seen)
         ELSE << Head(s) >> \o Dedup(Tail(s), seen \cup { Head(s) })

NoDuplicates(s) == \A i, j \in 1..Len(s) : s[i] = s[j] => i = j

MaterialSlot(comp) == "material__" \o comp

MaterialSlots ==
    { MaterialSlot(c) : c \in Range(get_material_components_for_category("")) }

\* s.split("__", 1)[1] for a material slot
ComponentOf(s) ==
    CHOOSE c \in Range(get_material_components_for_category("")) : MaterialSlot(c) = s

(***************************************************************************)
(* The slot dictionary.                                                    *)
(***************************************************************************)
Absent == "<absent>"

BoolSlots == { "has_basement", "has_elevator", "is_under_construction" }

\* every key the dialogue can write with slots[name] = value
SlotNames ==
    Range(BASE_REQUIRED_SLOTS_IN_ORDER) \cup SPECIAL_SLOT_EXAMPLES
      \cup MaterialSlots \cup { "_confirmation" }

NoChoice == [slot |-> Absent, choices |-> << >>]

\* section_index is an integer when present
NoIndex == -1

\* initial_state()["slots"] == {}
EmptySlots ==
    [ v                  |-> [s \in SlotNames \ {"section_dimensions"} |-> Absent],
      has_sections       |-> FALSE,
      section_dimensions |-> << >>,
      section_index      |-> NoIndex,
      awaiting_width     |-> Absent,
      expected           |-> NoChoice,
      confirmed          |-> Absent ]

\* name in slots
InSlots(name, sl) ==
    CASE name = "section_dimensions"   -> sl.has_sections
      [] name = "section_index"        -> sl.section_index # NoIndex
      [] name = "awaiting_width"       -> sl.awaiting_width # Absent
      [] name = "__expected_choices__" -> sl.expected # NoChoice
      [] name = "_confirmed"           -> sl.confirmed # Absent
      [] OTHER                         -> sl.v[name] # Absent

\* slots[name] = value for a text, choice or boolean slot
Put(sl, name, value) == [sl EXCEPT !.v[name] = value]

(***************************************************************************)
(* Text of a reply: the tokens a modelled user types and what the Python   *)
(* conversions make of them.                                               *)
(***************************************************************************)
DigitTokens == { "1", "2", "3", "4", "5", "6", "7", "100", "450" }

Tokens == DigitTokens \cup { "1.0", "abc", "yes", "no", "House", "Car", "Roof" }

\* str.isdigit()
IsDigit(t) == t \in DigitTokens

\* int(t) of a digit string
IntVal(t) ==
    CASE t = "1" -> 1 [] t = "2" -> 2 [] t = "3" -> 3 [] t = "4" -> 4
      [] t = "5" -> 5 [] t = "6" -> 6 [] t = "7" -> 7 [] t = "100" -> 100
      [] t = "450" -> 450 [] OTHER -> 0

\* int(t) does not raise ValueError
IntParses(t) == t \in DigitTokens

\* float(t) does not raise ValueError
FloatParses(t) == t \in DigitTokens \cup { "1.0" }

\* str.lower()
Lower(t) == CASE t = "Car" -> "car" [] t = "House" -> "house" [] OTHER -> t

\* _boolify: "True", "False" or "None"
_boolify(text) ==
    LET t == Lower(text) IN
    IF t \in { "yes", "y", "true", "t", "1", "ye", "yea", "yep", "ok", "okay", "sure" }
    THEN "True"
    ELSE IF t \in { "no", "n", "false", "f", "0", "nah", "nope", "not", "mo", "mo]", "nop" }
         THEN "False"
         ELSE "None"

\* slots.get("collateral_type", "").lower() == "car"
IsCar(sl) == sl.v["collateral_type"] # Absent /\ Lower(sl.v["collateral_type"]) = "car"

(***************************************************************************)
(* Required and missing slots.                                             *)
(***************************************************************************)
\* slots.get("building_category")
Category(sl) == sl.v["building_category"]

IsSpecial(cat) == Mem(cat, SPECIAL_CATEGORIES)

\* The write hidden in current_required_slots (line 215): once the category
\* is MPH & Factory Building every call stores gen_use = "Commercial".
AutoSetGenUse(sl) ==
    IF ~IsCar(sl) /\ Category(sl) = "MPH & Factory Building"
    THEN Put(sl, "gen_use", "Commercial")
    ELSE sl

\* current_required_slots without the branch of lines 194-204 for the
\* specialized categories
current_required_slots_no_special_branch(sl) ==
    LET cat == Category(sl) IN
    IF IsCar(sl) THEN << >>
    ELSE LET r0 == BASE_REQUIRED_SLOTS_IN_ORDER
             r1 == IF cat # "Multi-Story Building"
                   THEN Without(r0, { "num_floors", "has_elevator", "elevator_stops" })
                   ELSE r0
             r2 == IF cat = "MPH & Factory Building"
                   THEN Without(r1, { "length", "width", "gen_use", "num_sections",
                                      "section_dimensions" })
                          \o CATEGORY_SPECIAL_SLOTS(cat)
                   ELSE r1
             mats == get_material_components_for_category(cat)
             r3 == IF cat # Absent
                   THEN r2 \o [i \in 1..Len(mats) |-> MaterialSlot(mats[i])]
                   ELSE r2
         IN Dedup(r3, {})

\* current_required_slots(slots): the list it returns
current_required_slots(sl) ==
    LET cat == Category(sl) IN
    IF IsCar(sl) THEN << >>
    ELSE IF IsSpecial(cat)
    THEN Dedup(Without(SPECIAL_CATEGORY_BASE_SLOTS \o CATEGORY_SPECIAL_SLOTS(cat),
                       { "has_elevator", "elevator_stops" }), {})
    ELSE LET r0 == BASE_REQUIRED_SLOTS_IN_ORDER
             r1 == IF cat # "Multi-Story Building"
                   THEN Without(r0, { "num_floors", "has_elevator", "elevator_stops" })
                   ELSE r0
             r2 == IF cat = "MPH & Factory Building"
                   THEN Without(r1, { "length", "width", "gen_use", "num_sections",
                                      "section_dimensions" })
                          \o CATEGORY_SPECIAL_SLOTS(cat)
                   ELSE r1
             mats == get_material_components_for_category(cat)
             r3 == IF cat # Absent
                   THEN r2 \o [i \in 1..Len(mats) |-> MaterialSlot(mats[i])]
                   ELSE r2
         IN Dedup(r3, {})

\* int(slots.get("num_sections", 1))
NumSections(sl) ==
    IF sl.v["num_sections"] = Absent THEN 1 ELSE IntVal(sl.v["num_sections"])

\* "section_index" in slots and slots["section_index"] < int(slots.get("num_sections", 1))
SectionLoopActive(sl) ==
    InSlots("section_index", sl) /\ sl.section_index < NumSections(sl)

\* one conditional filter of missing_slots / ask_next_question_node:
\* the list without the named slots when cond holds
DropWhen(cond, seq, names) == IF cond THEN Without(seq, names) ELSE seq

\* missing_slots without the two rules of lines 251-255
missing_slots_without_conditionals(sl) ==
    IF IsCar(sl) THEN << >>
    ELSE
    LET cat == Category(sl)
        notStored(s) == ~InSlots(s, AutoSetGenUse(sl))
    IN DropWhen(/\ cat \notin { "Apartment / Condominium", "MPH & Factory Building" }
                /\ SectionLoopActive(sl),
         DropWhen(cat = "MPH & Factory Building",
           DropWhen(cat = "Apartment / Condominium",
                    SelectSeq(current_required_slots(sl), notStored),
                    { "num_sections", "section_dimensions", "has_basement" }),
           { "num_sections", "section_dimensions" }),
         { "section_dimensions" })

\* missing_slots(slots): the list it returns
missing_slots(sl) ==
    IF IsCar(sl) THEN << >>
    ELSE
    LET cat == Category(sl)
        notStored(s) == ~InSlots(s, AutoSetGenUse(sl))
    IN DropWhen(/\ cat \notin { "Apartment / Condominium", "MPH & Factory Building" }
                /\ SectionLoopActive(sl),
         DropWhen(sl.v["is_under_construction"] = "False",
           DropWhen(sl.v["has_elevator"] = "False",
             DropWhen(cat = "MPH & Factory Building",
               DropWhen(cat = "Apartment / Condominium",
                        SelectSeq(current_required_slots(sl), notStored),
                        { "num_sections", "section_dimensions", "has_basement" }),
               { "num_sections", "section_dimensions" }),
             { "elevator_stops" }),
           { "incomplete_components" }),
         { "section_dimensions" })

(***************************************************************************)
(* Transcript messages.                                                    *)
(***************************************************************************)
UserMsg(text) ==
    [role |-> "user", kind |-> "input", slot |-> text, part |-> "", idx |-> 0]

Say(kind) ==
    [role |-> "assistant", kind |-> kind, slot |-> "", part |-> "", idx |-> 0]

\* the prompt for slot s; part and idx tell the section prompts apart
Question(s, part, idx) ==
    [role |-> "assistant", kind |-> "question", slot |-> s, part |-> part, idx |-> idx]

IsQuestion(m) == m.role = "assistant" /\ m.kind = "question"

(***************************************************************************)
(* ask_next_question_node                                                  *)
(***************************************************************************)
options_map(s) ==
    CASE s = "building_category" -> VALID_CATEGORIES
      [] s = "gen_use"           -> VALID_USE
      [] s = "prop_town"         -> VALID_TOWN_CLASSES
      [] OTHER                   -> << >>

\* lines 294-301: the section loop, or the first remaining slot
FirstRemaining(sl, remaining) ==
    IF SectionLoopActive(sl) THEN "section_dimensions"
    ELSE IF remaining = << >> THEN Absent
    ELSE remaining[1]

\* lines 303-309: a special category is steered to its first unfilled special slot
SpecialRedirect(sl, s0) ==
    LET cat == Category(sl)
        specials == CATEGORY_SPECIAL_SLOTS(cat)
        unfilled(s) == ~InSlots(s, sl)
    IN IF s0 # Absent /\ IsSpecial(cat)
          /\ ~Mem(s0, SPECIAL_CATEGORY_BASE_SLOTS \o specials)
          /\ SelectSeq(specials, unfilled) # << >>
       THEN SelectSeq(specials, unfilled)[1] ELSE s0

\* lines 311-313: MPH & Factory asks height_meters before any material
HeightFirst(sl, s1) ==
    IF s1 # Absent /\ Category(sl) = "MPH & Factory Building"
       /\ ~InSlots("height_meters", sl) /\ s1 \in MaterialSlots
    THEN "height_meters" ELSE s1

\* the choice among the remaining slots
PickSlot(sl, askedList, remaining) ==
    IF Mem("collateral_type", remaining) /\ ~Mem("collateral_type", askedList)
    THEN "collateral_type"
    ELSE HeightFirst(sl, SpecialRedirect(sl, FirstRemaining(sl, remaining)))

\* the slot the node decides to prompt; Absent when it returns without asking
NextSlot(sl, askedList) ==
    LET notAsked(s) == ~Mem(s, askedList) IN
    PickSlot(sl, askedList,
             DropWhen(Category(sl) \in { "Apartment / Condominium",
                                         "MPH & Factory Building" },
                      SelectSeq(missing_slots(sl), notAsked),
                      { "num_sections", "section_dimensions" }))

\* the prompt appended for slot s, with sl the slots after the gen_use write
AskSlot(st, sl, s) ==
    IF s = "collateral_type"
    THEN [st EXCEPT !.messages = Append(@, Question(s, "", 0)),
                    !.asked = Append(@, s)]
    ELSE IF IsCar(st.slots)
    THEN [st EXCEPT !.messages = Append(@, Say("car_in_development")),
                    !.asked = current_required_slots(st.slots)]
    ELSE IF s = Absent
    THEN [st EXCEPT !.slots = sl]
    ELSE IF options_map(s) # << >>
    THEN [st EXCEPT !.slots = [sl EXCEPT !.expected = [slot |-> s, choices |-> options_map(s)]],
                    !.messages = Append(@, Question(s, "", 0)),
                    !.asked = Append(@, s)]
    ELSE IF s \in MaterialSlots
    THEN [st EXCEPT !.slots = [sl EXCEPT !.expected =
                                  [slot |-> s, choices |-> MATERIAL_EXAMPLES(ComponentOf(s))]],
                    !.messages = Append(@, Question(s, "", 0)),
                    !.asked = Append(@, s)]
    ELSE IF s \notin SPECIAL_SLOT_EXAMPLES /\ s = "section_dimensions"
    THEN LET idx == IF InSlots("section_index", sl) THEN sl.section_index ELSE 0
             part == IF Category(sl) = "Apartment / Condominium" THEN "area"
                     ELSE IF sl.awaiting_width = "True" THEN "width" ELSE "length"
         IN [st EXCEPT !.slots = sl,
                       !.messages = Append(@, Question(s, part, idx + 1)),
                       !.asked = Append(@, s)]
    ELSE [st EXCEPT !.slots = sl,
                    !.messages = Append(@, Question(s, "", 0)),
                    !.asked = Append(@, s)]

ask_next_question_node(st) ==
    AskSlot(st, AutoSetGenUse(st.slots), NextSlot(st.slots, st.asked))

(***************************************************************************)
(* extract_info_node                                                       *)
(***************************************************************************)
\* One record of section_dimensions: a dict with optional keys.  A stored
\* float is written as the text it was parsed from.
EmptySection == [length |-> Absent, width |-> Absent, area |-> Absent]

\* while len(records) <= idx: records.append({})
RECURSIVE PadTo(_, _)
PadTo(records, idx) ==
    IF Len(records) <= idx THEN PadTo(Append(records, EmptySection), idx) ELSE records

\* records[idx][key] = value after padding (idx counts from 0)
SetSection(records, idx, key, value) ==
    LET padded == PadTo(records, idx) IN
    [padded EXCEPT ![idx + 1] =
        CASE key = "length" -> [@ EXCEPT !.length = value]
          [] key = "width"  -> [@ EXCEPT !.width = value]
          [] OTHER          -> [@ EXCEPT !.area = value]]

\* The section branch (lines 445-504).  slots["section_index"] += 1 raises
\* KeyError while the key is absent, after the record has been written.
ExtractSection(st, content) ==
    LET sl0 == st.slots
        idx == IF InSlots("section_index", sl0) THEN sl0.section_index ELSE 0
        sl  == IF sl0.has_sections THEN sl0
               ELSE [sl0 EXCEPT !.has_sections = TRUE, !.section_dimensions = << >>]
        bump(s1) ==
            IF ~InSlots("section_index", s1)
            THEN [st EXCEPT !.slots = s1, !.raised = TRUE]
            ELSE LET s2 == [s1 EXCEPT !.section_index = @ + 1] IN
                 IF s2.section_index >= NumSections(s2)
                 THEN [st EXCEPT
                         !.slots = [s2 EXCEPT !.section_index = NoIndex,
                                              !.awaiting_width = Absent],
                         !.asked = IF Mem("section_dimensions", @) THEN @
                                   ELSE Append(@, "section_dimensions")]
                 ELSE [st EXCEPT !.slots = s2]
    IN
    IF Category(sl) = "Apartment / Condominium"
    THEN IF FloatParses(content)
         THEN bump([sl EXCEPT !.section_dimensions = SetSection(@, idx, "area", content)])
         ELSE [st EXCEPT !.slots = sl, !.messages = Append(@, Say("invalid_area"))]
    ELSE IF sl.awaiting_width = "True"
    THEN IF FloatParses(content)
         THEN bump([sl EXCEPT !.section_dimensions = SetSection(@, idx, "width", content),
                              !.awaiting_width = "False"])
         ELSE [st EXCEPT !.slots = sl, !.messages = Append(@, Say("invalid_width"))]
    ELSE IF FloatParses(content)
         THEN [st EXCEPT !.slots =
                  [sl EXCEPT !.section_dimensions = SetSection(@, idx, "length", content),
                             !.awaiting_width = "True"]]
         ELSE [st EXCEPT !.slots = sl, !.messages = Append(@, Say("invalid_length"))]

extract_info_node(st) ==
    IF st.messages = << >> THEN st
    ELSE
    LET last == st.messages[Len(st.messages)] IN
    IF last.role # "user" THEN st
    ELSE IF st.asked = << >> THEN st
    ELSE
    LET last_asked == st.asked[Len(st.asked)]
        content == last.slot
        sl == st.slots
        expected == sl.expected
    IN
    IF last_asked \in BoolSlots
    THEN IF _boolify(content) # "None"
         THEN [st EXCEPT !.slots = Put(sl, last_asked, _boolify(content))]
         ELSE [st EXCEPT !.messages = Append(@, Say("reply_yes_or_no"))]
    ELSE IF expected # NoChoice
    THEN IF IsDigit(content)
         THEN IF 0 <= IntVal(content) - 1 /\ IntVal(content) - 1 < Len(expected.choices)
              THEN [st EXCEPT !.slots =
                       [Put(sl, expected.slot, expected.choices[IntVal(content)])
                          EXCEPT !.expected = NoChoice]]
              ELSE [st EXCEPT !.messages = Append(@, Say("number_out_of_range"))]
         ELSE [st EXCEPT !.messages = Append(@, Say("not_a_number"))]
    ELSE IF last_asked = "building_category"
    THEN IF IsDigit(content) /\ 0 < IntVal(content)
            /\ IntVal(content) <= Len(VALID_CATEGORIES)
         THEN LET cat == VALID_CATEGORIES[IntVal(content)] IN
              IF cat = "Apartment / Condominium"
              THEN [st EXCEPT
                      !.slots = [Put(Put(sl, last_asked, cat), "num_sections", "1")
                                   EXCEPT !.has_sections = TRUE,
                                          !.section_dimensions =
                                              << [EmptySection EXCEPT !.area = "100"] >>],
                      !.asked = @ \o << "num_sections", "section_dimensions" >>]
              ELSE [st EXCEPT !.slots = Put(sl, last_asked, cat)]
         ELSE [st EXCEPT !.messages = Append(@, Say("invalid_category"))]
    ELSE IF last_asked = "section_dimensions"
    THEN ExtractSection(st, content)
    ELSE [st EXCEPT !.slots = Put(sl, last_asked, content)]

(***************************************************************************)
(* Confirmation nodes and routing                                          *)
(***************************************************************************)
summary_confirmation_node(st) ==
    [st EXCEPT !.messages = Append(@, Say("confirmation_summary")),
               !.asked = Append(@, "_confirmation")]

process_confirmation_node(st) ==
    IF st.messages = << >> THEN st
    ELSE
    LET user_response == Lower(st.messages[Len(st.messages)].slot) IN
    IF user_response \in { "yes", "y", "proceed", "confirm" }
    THEN [st EXCEPT !.slots.confirmed = "True",
                    !.messages = Append(@, Say("proceeding"))]
    ELSE IF user_response \in { "no", "n", "cancel", "stop" }
    THEN [st EXCEPT !.slots.confirmed = "False",
                    !.messages = Append(@, Say("cancelled"))]
    ELSE [st EXCEPT !.messages = Append(@, Say("respond_yes_or_no"))]

\* should_calculate without the car test of lines 602-604
should_calculate_no_car_test(st) ==
    IF missing_slots(st.slots) # << >> THEN "ASK"
    ELSE IF st.slots.confirmed # "True" THEN "CONFIRM"
    ELSE "CALC"

\* should_calculate(state): "ASK", "CONFIRM" or "CALC"
should_calculate(st) ==
    IF IsCar(st.slots) THEN "ASK"
    ELSE IF missing_slots(st.slots) # << >> THEN "ASK"
    ELSE IF st.slots.confirmed # "True" THEN "CONFIRM"
    ELSE "CALC"

(***************************************************************************)
(* Numbers of the calculation engine.  A float is the exact rational       *)
(* [n, d] with d > 0 in lowest terms, so equal numbers are equal records.  *)
(***************************************************************************)
Abs(x) == IF x < 0 THEN -x ELSE x

RECURSIVE GCD(_, _)
GCD(a, b) == IF b = 0 THEN a ELSE GCD(b, a % b)

\* the number n / d, for d > 0
Rat(n, d) == [n |-> n \div GCD(Abs(n), d), d |-> d \div GCD(Abs(n), d)]

R(i) == [n |-> i, d |-> 1]

Zero == R(0)

RAdd(a, b) == Rat(a.n * b.d + b.n * a.d, a.d * b.d)

RSub(a, b) == Rat(a.n * b.d - b.n * a.d, a.d * b.d)

RMul(a, b) == Rat(a.n * b.n, a.d * b.d)

RLe(a, b) == a.n * b.d <= b.n * a.d

RLt(a, b) == a.n * b.d < b.n * a.d

\* min(a, b) and max(a, b) of Python
RMin(a, b) == IF RLe(a, b) THEN a ELSE b

RMax(a, b) == IF RLe(b, a) THEN a ELSE b

(***************************************************************************)
(* Location value (calculation_engine.py) and plot grade (agent.py).  The  *)
(* location table of location_data.json is data handed to the program: a   *)
(* table is the sequence of its (town, use, grade) paths in file order,    *)
(* each with its tiers [min, max, rate] in file order; max = inf stands    *)
(* for the "inf" upper end.                                                *)
(***************************************************************************)
inf == -1

\* min_area <= plot_area <= max_area
TierContains(t, plot_area) ==
    /\ RLe(R(t.min), plot_area)
    /\ (t.max = inf \/ RLe(plot_area, R(t.max)))

\* all_location_data.get(town, {}).get(use, {}).get(grade, {})
GradeTable(all_location_data, town, use, grade) ==
    LET hit == { i \in 1..Len(all_location_data) :
                   /\ all_location_data[i].town = town
                   /\ all_location_data[i].use = use
                   /\ all_location_data[i].grade = grade }
    IN IF hit = {} THEN << >>
       ELSE all_location_data[CHOOSE i \in hit : TRUE].tiers

\* index of the first tier of grade_table that contains the area, 0 if none
FirstTier(grade_table, plot_area) ==
    LET hit == { i \in 1..Len(grade_table) : TierContains(grade_table[i], plot_area) }
    IN IF hit = {} THEN 0 ELSE CHOOSE i \in hit : \A j \in hit : i <= j

calculate_location_value(all_location_data, town, use, grade, plot_area) ==
    LET grade_table == GradeTable(all_location_data, town, use, grade) IN
    IF grade_table = << >> THEN RMul(R(3000), plot_area)
    ELSE IF FirstTier(grade_table, plot_area) = 0 THEN Zero
    ELSE RMul(R(grade_table[FirstTier(grade_table, plot_area)].rate), plot_area)

\* calculate_location_value_limit with no upper end of the interpolation
calculate_location_value_limit_no_upper(ccw, plot_area) ==
    IF ccw = Zero THEN Zero
    ELSE IF RLe(plot_area, R(2000)) THEN RMul(R(3), ccw)
    ELSE RSub(RMul(Rat(7, 2), ccw), RMul(RMul(ccw, plot_area), Rat(1, 4000)))

calculate_location_value_limit(ccw, plot_area) ==
    IF ccw = Zero THEN Zero
    ELSE IF RLe(plot_area, R(2000)) THEN RMul(R(3), ccw)
    ELSE IF RLe(R(2001), plot_area) /\ RLe(plot_area, R(10000))
    THEN RSub(RMul(Rat(7, 2), ccw), RMul(RMul(ccw, plot_area), Rat(1, 4000)))
    ELSE ccw

\* calculate_apartment_cost without the clamp of line 109
calculate_apartment_cost_unclamped(base_cost, floor_number) ==
    LET deduction == IF floor_number = 1 THEN Rat(25, 1000)
                     ELSE IF floor_number > 1
                     THEN RSub(Rat(25, 1000), RMul(Rat(15, 1000), R(floor_number - 1)))
                     ELSE Zero
    IN RMul(base_cost, RSub(R(1), deduction))

calculate_apartment_cost(base_cost, floor_number) ==
    LET deduction == IF floor_number = 1 THEN Rat(25, 1000)
                     ELSE IF floor_number > 1
                     THEN RSub(Rat(25, 1000), RMul(Rat(15, 1000), R(floor_number - 1)))
                     ELSE Zero
    IN RMul(base_cost, RSub(R(1), RMax(Rat(-1, 10), deduction)))

(***************************************************************************)
(* Building rates.  building_rates.json is data handed to the program: a   *)
(* sequence of items, one per building type, with field `grades` mapping   *)
(* the grades the item has to [min, max].                                  *)
(***************************************************************************)
Midpoint(row) == Rat(row.min + row.max, 2)

\* get_building_grade_rate: the first item of the type; KeyError falls back
\* to the Average columns; 0 when no item has the type
get_building_grade_rate(building_rates_data, building_type, grade) ==
    LET hit == { i \in 1..Len(building_rates_data) :
                   building_rates_data[i].type = building_type }
        item == building_rates_data[CHOOSE i \in hit : \A j \in hit : i <= j]
    IN IF hit = {} THEN Zero
       ELSE IF grade \in DOMAIN item.grades THEN Midpoint(item.grades[grade])
       ELSE Midpoint(item.grades["Average"])

\* building_type_for_rate chosen by the floor count alone
BuildingTypeForRate_by_floors_only(category, num_floors) ==
    IF 1 <= num_floors /\ num_floors <= 3 THEN "G+1 and G+2"
    ELSE IF num_floors >= 4 THEN "G+3 and G+4"
    ELSE "Single Story Building (higher Villa)"

\* run_full_valuation, lines 167-178: building_type_for_rate
BuildingTypeForRate(category, num_floors) ==
    IF category = "Higher Villa" THEN "Single Story Building (higher Villa)"
    ELSE IF 1 <= num_floors /\ num_floors <= 3 THEN "G+1 and G+2"
    ELSE IF num_floors >= 4 THEN "G+3 and G+4"
    ELSE "Single Story Building (higher Villa)"

\* full_replacement_cost with the floor multiplier num_floors for every category
full_replacement_cost_no_ground_floor(building_rates_data, building, grade) ==
    LET rate == get_building_grade_rate(building_rates_data,
                    BuildingTypeForRate(building.category, building.num_floors), grade)
        cost == RMul(RMul(building.total_building_area, rate), R(building.num_floors))
    IN IF building.has_basement THEN RMul(cost, Rat(5, 4)) ELSE cost

\* run_full_valuation, lines 184-188, for a building of a generic category
\* whose grade has been resolved at line 182
full_replacement_cost(building_rates_data, building, grade) ==
    LET rate == get_building_grade_rate(building_rates_data,
                    BuildingTypeForRate(building.category, building.num_floors), grade)
        cost == RMul(RMul(building.total_building_area, rate),
                     R(IF building.category # "Apartment / Condominium"
                       THEN building.num_floors + 1 ELSE 1))
    IN IF building.has_basement THEN RMul(cost, Rat(5, 4)) ELSE cost

\* run_full_valuation, lines 234-237: the plot area after the apartment scaling
ScaledPlotArea(first_building, plot_area) ==
    IF first_building.category = "Apartment / Condominium"
    THEN RMul(plot_area, IF first_building.confirmed_grade \in { "Excellent", "Good" }
                         THEN Rat(8, 10) ELSE Rat(4, 10))
    ELSE plot_area

\* location_values with the calculated value applied without the cap
location_values_uncapped(all_location_data, ccw, first_building, property_details) ==
    LET plot_area == ScaledPlotArea(first_building, property_details.plot_area)
        calculated_lv == calculate_location_value(all_location_data,
                             property_details.prop_town, property_details.gen_use,
                             property_details.plot_grade, plot_area)
    IN [calculated_location_value |-> calculated_lv,
        location_value_limit |-> calculate_location_value_limit(ccw, plot_area),
        final_applied_location_value |-> calculated_lv]

\* location_values with max() in place of the min() of line 246
location_values_max(all_location_data, ccw, first_building, property_details) ==
    LET plot_area == ScaledPlotArea(first_building, property_details.plot_area)
        calculated_lv == calculate_location_value(all_location_data,
                             property_details.prop_town, property_details.gen_use,
                             property_details.plot_grade, plot_area)
    IN [calculated_location_value |-> calculated_lv,
        location_value_limit |-> calculate_location_value_limit(ccw, plot_area),
        final_applied_location_value |->
            RMax(calculated_lv, calculate_location_value_limit(ccw, plot_area))]

\* run_full_valuation, lines 231-246, with ccw the cost computed by lines
\* 148-229 and first_building = valuation_data['buildings'][0]
location_values(all_location_data, ccw, first_building, property_details) ==
    LET plot_area == ScaledPlotArea(first_building, property_details.plot_area)
        calculated_lv == calculate_location_value(all_location_data,
                             property_details.prop_town, property_details.gen_use,
                             property_details.plot_grade, plot_area)
    IN [calculated_location_value |-> calculated_lv,
        location_value_limit |-> calculate_location_value_limit(ccw, plot_area),
        final_applied_location_value |->
            RMin(calculated_lv, calculate_location_value_limit(ccw, plot_area))]

\* PLOT_PRICES of agent.py, the same location_data.json: the table the
\* sessions of the dialogue run with
PLOT_PRICES ==
    << [town |-> "Finfinne Border A1", use |-> "Residential", grade |-> "Poor",
        tiers |-> << [min |-> 0, max |-> 200, rate |-> 3] >>],
       [town |-> "Finfinne Border A1", use |-> "Residential", grade |-> "Good",
        tiers |-> << [min |-> 201, max |-> inf, rate |-> 4] >>],
       [town |-> "Finfinne Border A1", use |-> "Commercial", grade |-> "Excellent",
        tiers |-> << [min |-> 0, max |-> inf, rate |-> 6] >>] >>

\* select_plot_grade: the first grade of PLOT_PRICES[location][use_type], in
\* file order, one of whose ranges contains the area; "Average" otherwise
select_plot_grade(plot_prices, location, use_type, plot_area) ==
    LET hit == { i \in 1..Len(plot_prices) :
                   /\ plot_prices[i].town = location
                   /\ plot_prices[i].use = use_type
                   /\ FirstTier(plot_prices[i].tiers, plot_area) # 0 }
    IN IF hit = {} THEN "Average"
       ELSE plot_prices[CHOOSE i \in hit : \A j \in hit : i <= j].grade

(***************************************************************************)
(* Grade inference (calculation_engine.py, lines 32-50).  A text is the    *)
(* sequence of its characters.  material_mappings.json is data handed to   *)
(* the program: each mapping takes a component name to the sequence, in    *)
(* file order, of its [substring, grade] entries.                          *)
(***************************************************************************)
\* quality_scores.get(grade, 2)
quality_scores(grade) ==
    CASE grade = "Excellent" -> 4
      [] grade = "Good" -> 3
      [] grade = "Average" -> 2
      [] grade = "Economy" -> 1
      [] grade = "Minimum" -> 0
      [] OTHER -> 2

\* sub in text, of two Python strings
Contains(sub, text) ==
    \E i \in 1..(Len(text) - Len(sub) + 1) : SubSeq(text, i, i + Len(sub) - 1) = sub

\* data_loader.get_mapping_by_category
get_mapping_by_category(material_mappings, category) ==
    IF category \in { "Higher Villa", "Multi-Story Building", "Apartment / Condominium" }
    THEN material_mappings.villa_and_multi_story_mapping
    ELSE IF category = "MPH & Factory Building"
    THEN material_mappings.mph_factory_mapping
    ELSE << >>

\* index of the first entry whose substring is in the material, 0 if none
\* (the inner loop of lines 39-43 and its break)
FirstMatch(entries, material) ==
    LET hit == { i \in 1..Len(entries) : Contains(entries[i].substring, material) }
    IN IF hit = {} THEN 0 ELSE CHOOSE i \in hit : \A j \in hit : i <= j

\* the components that add to count
Matched(mapping, selected_materials) ==
    { c \in DOMAIN selected_materials :
        c \in DOMAIN mapping /\ FirstMatch(mapping[c], selected_materials[c]) # 0 }

\* total_score over the components comps
RECURSIVE TotalScore(_, _, _)
TotalScore(mapping, selected_materials, comps) ==
    IF comps = {} THEN 0
    ELSE LET c == CHOOSE x \in comps : TRUE IN
         quality_scores(mapping[c][FirstMatch(mapping[c], selected_materials[c])].grade)
         + TotalScore(mapping, selected_materials, comps \ { c })

\* lines 44-50 with the comparisons made strict
GradeOfScore_strict(total_score, count) ==
    IF count = 0 THEN "Average"
    ELSE IF RLt(Rat(7, 2), Rat(total_score, count)) THEN "Excellent"
    ELSE IF RLt(Rat(5, 2), Rat(total_score, count)) THEN "Good"
    ELSE IF RLt(Rat(3, 2), Rat(total_score, count)) THEN "Average"
    ELSE IF RLt(Rat(1, 2), Rat(total_score, count)) THEN "Economy"
    ELSE "Minimum"

\* lines 44-50: the grade of avg_score = total_score / count
GradeOfScore(total_score, count) ==
    IF count = 0 THEN "Average"
    ELSE IF RLe(Rat(7, 2), Rat(total_score, count)) THEN "Excellent"
    ELSE IF RLe(Rat(5, 2), Rat(total_score, count)) THEN "Good"
    ELSE IF RLe(Rat(3, 2), Rat(total_score, count)) THEN "Average"
    ELSE IF RLe(Rat(1, 2), Rat(total_score, count)) THEN "Economy"
    ELSE "Minimum"

suggest_grade_from_materials(material_mappings, selected_materials, category) ==
    LET mapping == get_mapping_by_category(material_mappings, category) IN
    GradeOfScore(TotalScore(mapping, selected_materials, Matched(mapping, selected_materials)),
                 Cardinality(Matched(mapping, selected_materials)))

(***************************************************************************)
(* Cost of one building (run_full_valuation, lines 148-218).  The tables   *)
(* of the data directory are data handed to the program, gathered in one   *)
(* record `data`: component_percentages takes a component to its row, a    *)
(* function from column names to percentages; minimum_completion_stages,   *)
(* the three unit-rate tables and elevator_rates follow their files.       *)
(***************************************************************************)
\* sum of a sequence of numbers
RECURSIVE RSum(_)
RSum(seq) == IF seq = << >> THEN Zero ELSE RAdd(Head(seq), RSum(Tail(seq)))

\* lines 56-65: the column of component_percentages
ColumnKey(building_type, grade) ==
    LET type_key == CASE building_type = "Single Story Building (higher Villa)"
                           -> "Single_Storey"
                      [] building_type = "G+1 and G+2" -> "G1_G2"
                      [] building_type = "G+3 and G+4" -> "G3_G4"
                      [] OTHER -> "G1_G2"
        grade_key == CASE grade \in { "Excellent", "Good" } -> "Best"
                       [] grade = "Average" -> "Avg"
                       [] grade \in { "Economy", "Minimum" } -> "Poor"
                       [] OTHER -> "Avg"
    IN [type_key |-> type_key, grade_key |-> grade_key]

\* lines 66-72: what one incomplete component adds to total_deduction_percent
Deduction(component_percentages, component, column_key) ==
    IF component \in DOMAIN component_percentages
       /\ column_key \in DOMAIN component_percentages[component]
    THEN component_percentages[component][column_key]
    ELSE Zero

\* calculate_under_construction_value that deducts nothing
calculate_under_construction_value_no_deduction(component_percentages, full_value, building_type, grade, incomplete_components) ==
    << full_value, R(1) >>

\* calculate_under_construction_value: << value, completed_percent >>
calculate_under_construction_value(component_percentages, full_value, building_type, grade, incomplete_components) ==
    LET completed_percent ==
            RSub(R(1), RSum([ i \in 1..Len(incomplete_components) |->
                                Deduction(component_percentages, incomplete_components[i],
                                          ColumnKey(building_type, grade)) ]))
    IN << RMul(full_value, completed_percent), completed_percent >>

\* lines 167-178: policy_check_type
PolicyCheckType(category, num_floors) ==
    IF category = "Higher Villa" THEN "Higher Villa"
    ELSE IF 1 <= num_floors /\ num_floors <= 3 THEN "G+1-3"
    ELSE IF num_floors >= 4 THEN "G+4 & above"
    ELSE "Higher Villa"

\* minimum_completion_stages.get(policy_check_type, 0)
MinCompletion(minimum_completion_stages, policy_check_type) ==
    IF policy_check_type \in DOMAIN minimum_completion_stages
    THEN minimum_completion_stages[policy_check_type]
    ELSE Zero

\* components.get(key, 0) * rate, summed over the keys the function names
ComponentsValue(components, rates, keys) ==
    RSum([ i \in 1..Len(keys) |->
             RMul(IF keys[i][1] \in DOMAIN components THEN components[keys[i][1]] ELSE Zero,
                  R(rates[keys[i][2]])) ])

calculate_fuel_station_value(fuel_station_rates, components) ==
    ComponentsValue(components, fuel_station_rates,
        << << "site_preparation_area", "site_preparation" >>,
           << "forecourt_area", "reinforced_concrete_forecourt" >>,
           << "canopy_area", "steel_canopy" >>,
           << "num_pump_islands", "pump_island" >>,
           << "num_ugt_30m3", "ugt_30m3" >>,
           << "num_ugt_50m3", "ugt_50m3" >> >>)

calculate_coffee_site_value(coffee_site_rates, components) ==
    ComponentsValue(components, coffee_site_rates,
        << << "cherry_hopper_area", "cherry_hopper" >>,
           << "fermentation_tanks_area", "fermentation_tanks" >>,
           << "washing_channels_length", "washing_channels" >>,
           << "coffee_drier_area", "coffee_drier" >> >>)

calculate_green_house_value(green_house_rates, components) ==
    ComponentsValue(components, green_house_rates,
        << << "greenhouse_area", "greenhouse_cover" >>,
           << "in_farm_road_km", "in_farm_road" >>,
           << "borehole_depth", "borehole" >>,
           << "land_preparation_area", "land_preparation" >> >>)

\* line 163: the categories costed by rate bracket
GENERIC_CATEGORIES ==
    { "Higher Villa", "Multi-Story Building", "MPH & Factory Building",
      "Apartment / Condominium" }

\* lines 163-178: the value of building_type_for_rate after the loop body
\* has run for a building; the variable is assigned only inside the branch
\* of the generic categories, "None" stands for never assigned
building_type_for_rate(category, num_floors) ==
    IF category \in GENERIC_CATEGORIES
    THEN BuildingTypeForRate(category, num_floors)
    ELSE "None"

\* line 182: building.get('confirmed_grade') or suggested_grade; an absent
\* confirmed grade is "None"
ResolvedGrade(material_mappings, building) ==
    IF building.confirmed_grade # "None" THEN building.confirmed_grade
    ELSE suggest_grade_from_materials(material_mappings, building.selected_materials,
                                      building.category)

\* lines 190-204 once the full cost and the grade are known: the cost after
\* the under-construction step and whether the warning is appended
ConstructionStep(data, building, grade, full) ==
    LET done == calculate_under_construction_value(data.component_percentages, full,
                    BuildingTypeForRate(building.category, building.num_floors), grade,
                    building.incomplete_components)
    IN IF building.is_under_construction
       THEN [full |-> full, grade |-> grade, completed |-> done[1],
             warned |-> RLt(done[2], MinCompletion(data.minimum_completion_stages,
                                        PolicyCheckType(building.category,
                                                        building.num_floors)))]
       ELSE [full |-> full, grade |-> grade, completed |-> full, warned |-> FALSE]

\* lines 206-207
ApartmentStep(building, step) ==
    [full |-> step.full, grade |-> step.grade, completed |-> step.completed,
     warned |-> step.warned,
     building_cost |-> IF building.category = "Apartment / Condominium"
                       THEN calculate_apartment_cost(step.completed, building.num_floors)
                       ELSE step.completed]

\* building_cost with the basement factor applied to every category
building_cost_basement_everywhere(data, building) ==
    IF building.category \in GENERIC_CATEGORIES
    THEN ApartmentStep(building,
             ConstructionStep(data, building,
                 ResolvedGrade(data.material_mappings, building),
                 full_replacement_cost(data.building_rates_data, building,
                     ResolvedGrade(data.material_mappings, building))))
    ELSE [full |-> Zero, grade |-> "None", completed |-> Zero, warned |-> FALSE,
          building_cost |->
              RMul(IF building.has_basement THEN Rat(5, 4) ELSE R(1),
                   CASE building.category = "Fuel Station" ->
                          calculate_fuel_station_value(data.fuel_station_rates,
                                                       building.specialized_components)
                     [] building.category = "Coffee Washing Site" ->
                          calculate_coffee_site_value(data.coffee_site_rates,
                                                      building.specialized_components)
                     [] building.category = "Green House" ->
                          calculate_green_house_value(data.green_house_rates,
                                                      building.specialized_components)
                     [] OTHER -> Zero)]

\* the body of the loop of lines 148-218 for one building: its
\* building_cost, with the values of full_replacement_cost, grade and the
\* cost after lines 190-204, and whether a warning was appended
building_cost(data, building) ==
    IF building.category \in GENERIC_CATEGORIES
    THEN ApartmentStep(building,
             ConstructionStep(data, building,
                 ResolvedGrade(data.material_mappings, building),
                 full_replacement_cost(data.building_rates_data, building,
                     ResolvedGrade(data.material_mappings, building))))
    ELSE [full |-> Zero, grade |-> "None", completed |-> Zero, warned |-> FALSE,
          building_cost |->
              CASE building.category = "Fuel Station" ->
                     calculate_fuel_station_value(data.fuel_station_rates,
                                                  building.specialized_components)
                [] building.category = "Coffee Washing Site" ->
                     calculate_coffee_site_value(data.coffee_site_rates,
                                                 building.specialized_components)
                [] building.category = "Green House" ->
                     calculate_green_house_value(data.green_house_rates,
                                                 building.specialized_components)
                [] OTHER -> Zero]

(***************************************************************************)
(* The totals of run_full_valuation (lines 221-278) for a request that     *)
(* raises nothing.                                                         *)
(***************************************************************************)
\* lines 223-227: elevator_rates is the sequence of its (capacity, stops)
\* keys in file order; min() keeps the first key of least distance
ElevatorCost(elevator_rates, special_items) ==
    IF ~special_items.has_elevator THEN Zero
    ELSE LET dist(i) == Abs(elevator_rates[i].stops - special_items.elevator_stops)
             closest == CHOOSE i \in 1..Len(elevator_rates) :
                           /\ \A j \in 1..Len(elevator_rates) : dist(i) <= dist(j)
                           /\ \A j \in 1..(i - 1) : dist(j) > dist(i)
         IN R(elevator_rates[closest].rate)

\* x / 100
Percent(x) == RMul(x, Rat(1, 100))

\* lines 248-256
total_other_costs(ccw, first_building, other_costs) ==
    IF first_building.category = "Apartment / Condominium" THEN Zero
    ELSE RAdd(RAdd(RAdd(RMul(ccw, Percent(other_costs.fence_percent)),
                        RMul(ccw, Percent(other_costs.septic_percent))),
                   RMul(ccw, Percent(other_costs.external_works_percent))),
              other_costs.water_tank_cost)

\* lines 262-265 with the forced value equal to the market value
Totals_forced_unscaled(sub_total, consultancy_percent, financial_factors) ==
    [sub_total |-> sub_total,
     consultancy_fee |-> RMul(sub_total, Percent(consultancy_percent)),
     estimated_market_value |->
        RMul(RMul(RAdd(sub_total, RMul(sub_total, Percent(consultancy_percent))),
                  financial_factors.mcf), financial_factors.pef),
     estimated_forced_value |->
        RMul(RMul(RAdd(sub_total, RMul(sub_total, Percent(consultancy_percent))),
                  financial_factors.mcf), financial_factors.pef)]

\* lines 258-265
Totals(sub_total, consultancy_percent, financial_factors) ==
    [sub_total |-> sub_total,
     consultancy_fee |-> RMul(sub_total, Percent(consultancy_percent)),
     estimated_market_value |->
        RMul(RMul(RAdd(sub_total, RMul(sub_total, Percent(consultancy_percent))),
                  financial_factors.mcf), financial_factors.pef),
     estimated_forced_value |->
        RMul(RMul(RMul(RAdd(sub_total, RMul(sub_total, Percent(consultancy_percent))),
                       financial_factors.mcf), financial_factors.pef), Rat(8, 10))]

\* the dict of lines 267-278, with the locals plot_area, sub_total and
\* consultancy_fee and the per-building values of the loop
Report(vd, costs, ccw, lv, other, totals) ==
    [total_building_cost |-> ccw,
     total_other_costs |-> other,
     calculated_location_value |-> lv.calculated_location_value,
     location_value_limit |-> lv.location_value_limit,
     final_applied_location_value |-> lv.final_applied_location_value,
     estimated_market_value |-> totals.estimated_market_value,
     estimated_forced_value |-> totals.estimated_forced_value,
     validation_warnings |-> { i \in 1..Len(costs) : costs[i].warned },
     plot_area |-> ScaledPlotArea(vd.buildings[1], vd.property_details.plot_area),
     sub_total |-> totals.sub_total,
     consultancy_fee |-> totals.consultancy_fee,
     buildings |-> costs]

\* lines 221-265 once the loop has run and ccw, the location values and the
\* other costs are known
ReportWith(vd, costs, ccw, lv, other) ==
    Report(vd, costs, ccw, lv, other,
           Totals(RAdd(RAdd(ccw, lv.final_applied_location_value), other),
                  vd.other_costs.consultancy_percent, vd.financial_factors))

ReportFrom(data, vd, costs, ccw) ==
    ReportWith(vd, costs, ccw,
               location_values(data.all_location_data, ccw, vd.buildings[1],
                               vd.property_details),
               total_other_costs(ccw, vd.buildings[1], vd.other_costs))

ReportOfCosts(data, vd, costs) ==
    ReportFrom(data, vd, costs,
               RAdd(RSum([ i \in 1..Len(costs) |-> costs[i].building_cost ]),
                    ElevatorCost(data.elevator_rates, vd.special_items)))

\* run_full_valuation on a request with at least one building and numbers
\* in every numeric field: what it returns
valuation_report(data, vd) ==
    ReportOfCosts(data, vd,
                  [ i \in 1..Len(vd.buildings) |-> building_cost(data, vd.buildings[i]) ])

(***************************************************************************)
(* The valuation request, the engine's failures and the tool wrapper.      *)
(* Numbers are integers; an Optional field that holds None is NoneNum, and *)
(* a raw string left where a number is required is NotNumber.              *)
(***************************************************************************)
NoneNum == -1

NotNumber == -2

\* float(t) / int(t) of a text that parses
NumVal(t) == IF t = "1.0" THEN 1 ELSE IntVal(t)

\* run_full_valuation raises on this request: the first statement that fails
\* is None arithmetic on a building (lines 161, 170, 185), the index into an
\* empty buildings list (lines 234, 248) or None factors (line 264).
BuildingRaises(b) ==
    \/ ~b.has_total_area /\ (b.length = NoneNum \/ b.width = NoneNum)
    \/ b.category \in GENERIC_CATEGORIES /\ b.num_floors = NoneNum

run_full_valuation(vd) ==
    [raised |-> \/ \E i \in 1..Len(vd.buildings) : BuildingRaises(vd.buildings[i])
                \/ vd.buildings = << >>
                \/ vd.mcf = NoneNum \/ vd.pef = NoneNum]

\* property_valuation_tool with the try/except of lines 98-101 taken out
property_valuation_tool_uncaught(vd) ==
    IF run_full_valuation(vd).raised
    THEN [kind |-> "propagated"]
    ELSE [kind |-> "report"]

\* property_valuation_tool: the string it returns
property_valuation_tool(vd) ==
    IF run_full_valuation(vd).raised
    THEN [kind |-> "error_string"]
    ELSE [kind |-> "report"]

\* args_schema validation done by .invoke() before the tool body runs:
\* specialized_components must map to floats
SchemaValid(vd) ==
    \A i \in 1..Len(vd.buildings) : vd.buildings[i].components_numeric

NoRequest ==
    [buildings |-> << >>, plot_area |-> 0, prop_town |-> "Unknown",
     gen_use |-> "Commercial", plot_grade |-> "Average", has_elevator |-> FALSE,
     elevator_stops |-> 0, mcf |-> 1, pef |-> 1]

NoOutput == [kind |-> "none"]

\* no function of the engine has been called on its own
NoCall == [fn |-> "none"]

(***************************************************************************)
(* calculate_node                                                          *)
(***************************************************************************)
\* the conversions made outside the try block (lines 689-703 and the
\* MPH & Factory area of _collect_specialized_components, line 650)
CalcConversionRaises(sl) ==
    LET bad_float(name) == sl.v[name] # Absent /\ ~FloatParses(sl.v[name])
        bad_int(name)   == sl.v[name] # Absent /\ ~IntParses(sl.v[name])
    IN \/ bad_float("mcf") \/ bad_float("pef")
       \/ bad_int("elevator_stops")
       \/ Category(sl) = "MPH & Factory Building" /\ bad_float("plot_area_sqm")
       \/ bad_float("length") \/ bad_float("width")
       \/ bad_int("num_floors")

\* float(sec.get(key, 0))
SectionNum(sec, key) ==
    LET x == CASE key = "length" -> sec.length [] key = "width" -> sec.width
               [] OTHER -> sec.area
    IN IF x = Absent THEN 0 ELSE NumVal(x)

RECURSIVE SumSections(_, _)
SumSections(records, apartment) ==
    IF records = << >> THEN 0
    ELSE (IF apartment THEN SectionNum(Head(records), "area")
          ELSE SectionNum(Head(records), "length") * SectionNum(Head(records), "width"))
         + SumSections(Tail(records), apartment)

\* _collect_specialized_components: total_building_area and whether every
\* collected component converted to a number
TotalBuildingArea(sl) ==
    LET cat == Category(sl) IN
    IF cat = "Apartment / Condominium" THEN SumSections(sl.section_dimensions, TRUE)
    ELSE IF cat = "MPH & Factory Building"
    THEN IF sl.v["plot_area_sqm"] = Absent THEN 0 ELSE NumVal(sl.v["plot_area_sqm"])
    ELSE SumSections(sl.section_dimensions, FALSE)

ComponentsNumeric(sl) ==
    LET keys == CATEGORY_SPECIAL_SLOTS(Category(sl)) IN
    \A i \in 1..Len(keys) :
        LET val == sl.v[keys[i]] IN
        \/ val = Absent
        \/ val \in { "True", "False" }
        \/ IF keys[i] \in { "num_pump_islands", "num_ugt_30m3", "num_ugt_50m3" }
           THEN IntParses(val) ELSE FloatParses(val)

\* the payload built by calculate_node (lines 698-773)
Payload(sl) ==
    LET cat == Category(sl)
        special == cat \in { "Fuel Station", "Coffee Washing Site", "Green House" }
        dim(name) == IF sl.v[name] = Absent
                     THEN (IF special THEN 0 ELSE NoneNum)
                     ELSE NumVal(sl.v[name])
        plot == IF sl.v["plot_area_sqm"] = Absent \/ ~FloatParses(sl.v["plot_area_sqm"])
                THEN 0 ELSE NumVal(sl.v["plot_area_sqm"])
        building ==
            [category |-> cat,
             length |-> dim("length"),
             width |-> dim("width"),
             num_floors |-> IF special \/ sl.v["num_floors"] = Absent THEN 1
                            ELSE NumVal(sl.v["num_floors"]),
             has_basement |-> sl.v["has_basement"] = "True",
             is_under_construction |-> sl.v["is_under_construction"] = "True",
             has_total_area |-> cat \in GENERIC_CATEGORIES,
             total_building_area |-> IF cat \in GENERIC_CATEGORIES
                                     THEN TotalBuildingArea(sl) ELSE 0,
             components_numeric |-> ComponentsNumeric(sl)]
        prop_town == IF sl.v["prop_town"] = Absent THEN "Unknown" ELSE sl.v["prop_town"]
        gen_use == IF sl.v["gen_use"] = Absent THEN "Commercial" ELSE sl.v["gen_use"]
    IN [buildings |-> << building >>,
        plot_area |-> plot,
        prop_town |-> prop_town,
        gen_use |-> gen_use,
        plot_grade |-> select_plot_grade(PLOT_PRICES, prop_town, gen_use, R(plot)),
        has_elevator |-> sl.v["has_elevator"] = "True",
        elevator_stops |-> IF sl.v["elevator_stops"] = Absent THEN 0
                           ELSE NumVal(sl.v["elevator_stops"]),
        mcf |-> IF sl.v["mcf"] = Absent THEN 1 ELSE NumVal(sl.v["mcf"]),
        pef |-> IF sl.v["pef"] = Absent THEN 1 ELSE NumVal(sl.v["pef"])]

\* the Apartment / Condominium defaults set at lines 680-684
ApartmentDefaults(sl) ==
    IF Category(sl) # "Apartment / Condominium" THEN sl
    ELSE LET s1 == IF sl.v["num_sections"] = Absent THEN Put(sl, "num_sections", "1")
                   ELSE sl
         IN IF s1.has_sections THEN s1
            ELSE [s1 EXCEPT !.has_sections = TRUE,
                            !.section_dimensions =
                                << [EmptySection EXCEPT !.area = "100"] >>]

\* the tool call of lines 775-832: st.out is what the call produced.  The
\* closing append of line 834 repeats the message appended at line 818 or 832.
InvokeValuation(st, sl, vd) ==
    IF ~SchemaValid(vd)
    THEN [st EXCEPT !.slots = sl, !.calc = TRUE, !.req = vd,
                    !.out = [kind |-> "validation_error"],
                    !.messages = @ \o << Say("valuation_failed"), Say("valuation_failed") >>]
    ELSE LET summary == [Say("valuation_summary") EXCEPT
                            !.part = IF property_valuation_tool(vd).kind = "report"
                                     THEN "amounts" ELSE "placeholders"]
         IN [st EXCEPT !.slots = sl, !.calc = TRUE, !.req = vd,
                       !.out = property_valuation_tool(vd),
                       !.messages = @ \o << summary, summary >>]

\* calculate_node after the defaults: st.raised tells that an exception left
\* the node
CalculateWith(st, sl) ==
    IF CalcConversionRaises(sl)
    THEN [st EXCEPT !.slots = sl, !.raised = TRUE, !.calc = TRUE]
    ELSE InvokeValuation(st, sl, Payload(sl))

calculate_node(st) == CalculateWith(st, ApartmentDefaults(st.slots))

(***************************************************************************)
(* Drivers.  `turn` records what the latest call of a driver did: the      *)
(* reply, the slot asked last before it, whether "_confirmation" was in    *)
(* asked, whether calculate_node ran, whether an exception left the call,  *)
(* and the values _confirmed had on entry, after process_confirmation_node *)
(* and on exit.                                                            *)
(***************************************************************************)
LastAsked(a) == IF a = << >> THEN Absent ELSE a[Len(a)]

Work(m, sl, a, r, o) ==
    [messages |-> m, slots |-> sl, asked |-> a, raised |-> FALSE, calc |-> FALSE,
     req |-> r, out |-> o]

\* should_calculate runs missing_slots, which stores gen_use for MPH & Factory
AfterRouting(st) == [st EXCEPT !.slots = AutoSetGenUse(@)]

\* lines 346-348: after a calculation that returned, asked is emptied and
\* _confirmed is reset
ConfirmedDone(st2) ==
    IF st2.raised THEN st2
    ELSE [st2 EXCEPT !.asked = << >>, !.slots.confirmed = "False"]

\* process_input, lines 343-351, with st1 the state process_confirmation_node left
ConfirmationRoute(st1) ==
    IF st1.slots.confirmed = "True"
    THEN ConfirmedDone(calculate_node(st1))
    ELSE IF st1.slots.confirmed = "False"
    THEN IF missing_slots(st1.slots) # << >>
         THEN ask_next_question_node(AfterRouting(st1))
         ELSE AfterRouting(st1)
    ELSE st1

\* process_input, lines 341-351: the branch taken while "_confirmation" is in asked
ConfirmationBranch(st0) == ConfirmationRoute(process_confirmation_node(st0))

\* lines 360-362: asked is emptied after a calculation that returned
CollectedDone(st3, clearAsked) ==
    IF st3.raised \/ ~clearAsked THEN st3 ELSE [st3 EXCEPT !.asked = << >>]

\* process_input, lines 353-362, with st1 the state extract_info_node left
CollectionRoute(st1, clearAsked) ==
    IF st1.raised THEN st1
    ELSE IF should_calculate(st1) = "ASK" THEN ask_next_question_node(AfterRouting(st1))
    ELSE IF should_calculate(st1) = "CONFIRM"
    THEN summary_confirmation_node(AfterRouting(st1))
    ELSE CollectedDone(calculate_node(AfterRouting(st1)), clearAsked)

\* process_input, lines 352-362, and the body of the CLI loop, lines 853-863
CollectionBranch(st0, clearAsked) == CollectionRoute(extract_info_node(st0), clearAsked)

TurnRecord(driver, u, st0, mid, st) ==
    [driver |-> driver, input |-> u,
     last_asked |-> LastAsked(st0.asked),
     confirming |-> Mem("_confirmation", st0.asked),
     calc |-> st.calc, raised |-> st.raised,
     confirmed |-> << st0.slots.confirmed, mid, st.slots.confirmed >>]

\* what the user is being asked for when the reply is typed
PromptedSlot == IF Mem("_confirmation", asked) THEN "_confirmation" ELSE LastAsked(asked)

\* the replies that answer the prompt; any other token is an off-script reply
OnScript(s) ==
    CASE s = "collateral_type"   -> { "House", "Car" }
      [] s = "building_category" -> { "1", "2", "3", "4", "5", "6", "7" }
      [] s \in { "prop_town", "gen_use" } \cup MaterialSlots -> { "1" }
      [] s \in BoolSlots \cup { "_confirmation" } -> { "yes", "no" }
      [] s = "num_floors" -> { "3" }
      [] s = "elevator_stops" -> { "5" }
      [] s = "num_sections" -> { "2" }
      [] s \in { "num_pump_islands", "num_ugt_30m3", "num_ugt_50m3" } -> { "4" }
      [] s \in { "mcf", "pef", "height_meters", "in_farm_road_km" } -> { "1.0" }
      [] s = "incomplete_components" -> { "Roof" }
      [] s = Absent -> { "yes" }
      [] OTHER -> { "450" }

OffScript == { "2", "1.0", "abc" }

Replies(s) == OnScript(s) \cup OffScript

\* a reply to the confirmation summary never counts against MaxOffScript
Cost(s, u) == IF u \in OnScript(s) \/ s = "_confirmation" THEN 0 ELSE 1

\* initial_state() followed by ask_next_question_node (initialize_session,
\* reset_chat and the first lines of the CLI runner)
initial_state == Work(<< >>, EmptySlots, << >>, NoRequest, NoOutput)

FirstQuestion == ask_next_question_node(initial_state)

Init ==
    /\ messages = FirstQuestion.messages
    /\ slots = FirstQuestion.slots
    /\ asked = FirstQuestion.asked
    /\ turn = [driver |-> "start", input |-> Absent, last_asked |-> Absent,
               confirming |-> FALSE, calc |-> FALSE, raised |-> FALSE,
               confirmed |-> << Absent, Absent, Absent >>]
    /\ offScript = 0
    /\ req = NoRequest
    /\ toolOut = NoOutput
    /\ call = NoCall
    /\ ret = NoCall

Commit(driver, u, st0, mid, st) ==
    /\ messages' = st.messages
    /\ slots' = st.slots
    /\ asked' = st.asked
    /\ req' = st.req
    /\ toolOut' = st.out
    /\ turn' = TurnRecord(driver, u, st0, mid, st)
    /\ offScript' = offScript + Cost(PromptedSlot, u)
    /\ UNCHANGED << call, ret >>

\* app.py process_input(user_input)
process_input(u) ==
    /\ Len(asked) < MaxAsked
    /\ offScript + Cost(PromptedSlot, u) <= MaxOffScript
    /\ LET st0 == Work(<< UserMsg(u) >>, slots, asked, req, toolOut) IN
       IF Mem("_confirmation", asked)
       THEN Commit("app", u, st0, process_confirmation_node(st0).slots.confirmed,
                   ConfirmationBranch(st0))
       ELSE Commit("app", u, st0, slots.confirmed, CollectionBranch(st0, TRUE))

\* app.py reset_chat()
reset_chat ==
    /\ turn.driver # "start"
    /\ messages' = FirstQuestion.messages
    /\ slots' = FirstQuestion.slots
    /\ asked' = FirstQuestion.asked
    /\ turn' = [driver |-> "start", input |-> Absent, last_asked |-> Absent,
                confirming |-> FALSE, calc |-> FALSE, raised |-> FALSE,
                confirmed |-> << Absent, Absent, Absent >>]
    /\ offScript' = 0
    /\ req' = NoRequest
    /\ toolOut' = NoOutput
    /\ UNCHANGED << call, ret >>

Next ==
    \/ \E u \in Replies(PromptedSlot) : process_input(u)
    \/ reset_chat

Spec == Init /\ [][Next]_vars

(***************************************************************************)
(* The CLI runner of agent.py: every reply goes through extract_info_node  *)
(* and should_calculate; an exception ends the program.                    *)
(***************************************************************************)
cli_loop(u) ==
    /\ turn.driver \in { "start", "cli" }
    /\ ~turn.raised
    /\ Len(asked) < MaxAsked
    /\ offScript + Cost(PromptedSlot, u) <= MaxOffScript
    /\ LET st0 == Work(<< UserMsg(u) >>, slots, asked, req, toolOut) IN
       Commit("cli", u, st0, slots.confirmed, CollectionBranch(st0, FALSE))

NextCLI == \E u \in Replies(PromptedSlot) : cli_loop(u)

SpecCLI == Init /\ [][NextCLI]_vars

(***************************************************************************)
(* property_valuation_tool called directly with a schema-valid request.    *)
(***************************************************************************)
ToolBuildings ==
    [ category : { "Higher Villa", "Apartment / Condominium", "Fuel Station", "Warehouse" },
      length : { NoneNum, 20 },
      width : { 15 },
      num_floors : { NoneNum, 1, 4 },
      has_basement : { FALSE },
      is_under_construction : { FALSE },
      has_total_area : BOOLEAN,
      total_building_area : { 100 },
      components_numeric : { TRUE } ]

RECURSIVE SeqsUpTo(_, _)
SeqsUpTo(S, n) ==
    IF n = 0 THEN { << >> }
    ELSE LET shorter == SeqsUpTo(S, n - 1) IN
         shorter \cup { Append(q, x) : q \in { r \in shorter : Len(r) = n - 1 }, x \in S }

ToolRequests ==
    [ buildings : SeqsUpTo(ToolBuildings, MaxBuildings),
      plot_area : { 500 },
      prop_town : { "Finfinne Border A1" },
      gen_use : { "Residential" },
      plot_grade : { "Good" },
      has_elevator : { FALSE },
      elevator_stops : { 0 },
      mcf : { NoneNum, 1 },
      pef : { 1 } ]

InitTool ==
    /\ messages = << >>
    /\ slots = EmptySlots
    /\ asked = << >>
    /\ turn = [driver |-> "tool", input |-> Absent, last_asked |-> Absent,
               confirming |-> FALSE, calc |-> FALSE, raised |-> FALSE,
               confirmed |-> << Absent, Absent, Absent >>]
    /\ offScript = 0
    /\ req \in ToolRequests
    /\ toolOut = NoOutput
    /\ call = NoCall
    /\ ret = NoCall

\* property_valuation_tool.invoke(req)
invoke_tool ==
    /\ turn.driver = "tool"
    /\ toolOut = NoOutput
    /\ toolOut' = property_valuation_tool(req)
    /\ UNCHANGED << messages, slots, asked, turn, offScript, req, call, ret >>

\* calculate_node from the tool call on (lines 775-835), with req the payload:
\* the call, the summary or the 'Valuation Failed' message, and the closing
\* append
report_valuation ==
    /\ turn.driver = "tool"
    /\ toolOut = NoOutput
    /\ LET st == InvokeValuation(Work(<< >>, slots, asked, req, toolOut), slots, req) IN
       /\ messages' = st.messages
       /\ toolOut' = st.out
       /\ turn' = [turn EXCEPT !.calc = st.calc, !.raised = st.raised]
    /\ UNCHANGED << slots, asked, offScript, req, call, ret >>

NextTool == invoke_tool \/ report_valuation

SpecTool == InitTool /\ [][NextTool]_vars

(***************************************************************************)
(* The functions of calculation_engine.py called on their own, each once   *)
(* from the freshly loaded module, with arguments drawn from small sets.   *)
(***************************************************************************)
EngineTown == "Finfinne Border A1"

\* three location tables: tiers with a gap between 200 and 201, two tiers
\* that share the boundary 2000, and a path whose tier table is empty
LocationTables ==
    { << [town |-> EngineTown, use |-> "Residential", grade |-> "Good",
          tiers |-> << [min |-> 0, max |-> 200, rate |-> 5],
                       [min |-> 201, max |-> 2500, rate |-> 4] >>],
         [town |-> EngineTown, use |-> "Residential", grade |-> "Average",
          tiers |-> << [min |-> 0, max |-> inf, rate |-> 3] >>] >>,
      << [town |-> EngineTown, use |-> "Residential", grade |-> "Good",
          tiers |-> << [min |-> 0, max |-> 2000, rate |-> 5],
                       [min |-> 2000, max |-> inf, rate |-> 2] >>] >>,
      << [town |-> EngineTown, use |-> "Residential", grade |-> "Good",
          tiers |-> << >>],
         [town |-> EngineTown, use |-> "Residential", grade |-> "Average",
          tiers |-> << [min |-> 0, max |-> 100, rate |-> 1] >>] >> }

\* plot areas: 200.5 lies in the gap of the first table, 2000.5 between the
\* first two branches of the limit, 2501 * 0.8 = 2000.8
EngineAreas ==
    { R(0), R(150), Rat(401, 2), R(2000), Rat(4001, 2), R(2001), R(2501),
      R(5000), R(10000), R(10001) }

EngineCosts == { Zero, R(1), Rat(5, 2), R(4000) }

EngineFloors == -1..12

\* building_rates.json with the three building types the engine names
RateTables ==
    { << [type |-> "Single Story Building (higher Villa)",
          grades |-> ("Good" :> [min |-> 10, max |-> 15])
                       @@ ("Average" :> [min |-> 6, max |-> 9])],
         [type |-> "G+1 and G+2",
          grades |-> ("Good" :> [min |-> 12, max |-> 16])
                       @@ ("Average" :> [min |-> 8, max |-> 10])],
         [type |-> "G+3 and G+4",
          grades |-> ("Average" :> [min |-> 11, max |-> 14])] >> }

EngineBuildings ==
    [ category : { "Higher Villa", "Multi-Story Building", "MPH & Factory Building",
                   "Apartment / Condominium" },
      total_building_area : { R(300), Rat(201, 2) },
      num_floors : { 0, 1, 3, 4 },
      has_basement : BOOLEAN,
      confirmed_grade : { "None", "Good" } ]

EnginePropertyDetails ==
    [ plot_area : EngineAreas,
      prop_town : { EngineTown, "Unknown" },
      gen_use : { "Residential" },
      plot_grade : { "Good", "Average" } ]

InitEngine ==
    /\ messages = << >>
    /\ slots = EmptySlots
    /\ asked = << >>
    /\ turn = [driver |-> "engine", input |-> Absent, last_asked |-> Absent,
               confirming |-> FALSE, calc |-> FALSE, raised |-> FALSE,
               confirmed |-> << Absent, Absent, Absent >>]
    /\ offScript = 0
    /\ req = NoRequest
    /\ toolOut = NoOutput
    /\ call = NoCall
    /\ ret = NoCall

Returns(c, r) ==
    /\ call = NoCall
    /\ call' = c
    /\ ret' = r
    /\ UNCHANGED << messages, slots, asked, turn, offScript, req, toolOut >>

call_location_value_limit ==
    \E ccw \in EngineCosts, plot_area \in EngineAreas :
        Returns([fn |-> "calculate_location_value_limit", ccw |-> ccw,
                 plot_area |-> plot_area],
                calculate_location_value_limit(ccw, plot_area))

call_location_value ==
    \E t \in LocationTables, town \in { EngineTown, "Unknown" },
       grade \in { "Good", "Average", "Poor" }, plot_area \in EngineAreas :
        Returns([fn |-> "calculate_location_value", all_location_data |-> t,
                 town |-> town, use |-> "Residential", grade |-> grade,
                 plot_area |-> plot_area],
                calculate_location_value(t, town, "Residential", grade, plot_area))

call_apartment_cost ==
    \E base_cost \in { Zero, R(1000), Rat(5, 2) }, floor_number \in EngineFloors :
        Returns([fn |-> "calculate_apartment_cost", base_cost |-> base_cost,
                 floor_number |-> floor_number],
                calculate_apartment_cost(base_cost, floor_number))

call_full_replacement_cost ==
    \E rates \in RateTables, b \in EngineBuildings,
       grade \in { "Excellent", "Good", "Average" } :
        Returns([fn |-> "full_replacement_cost", building_rates_data |-> rates,
                 building |-> b, grade |-> grade],
                full_replacement_cost(rates, b, grade))

call_location_values ==
    \E t \in LocationTables, ccw \in { Zero, R(4000), R(40000) },
       b \in { x \in EngineBuildings :
                 /\ x.category \in { "Higher Villa", "Apartment / Condominium" }
                 /\ x.total_building_area = R(300) /\ x.num_floors = 1
                 /\ ~x.has_basement },
       pd \in EnginePropertyDetails :
        Returns([fn |-> "location_values", all_location_data |-> t, ccw |-> ccw,
                 first_building |-> b, property_details |-> pd],
                location_values(t, ccw, b, pd))

\* material_mappings.json: entries whose substrings overlap ("ab" holds "a"
\* and "b"), and a second mapping for MPH & Factory Building
MaterialMappings ==
    [villa_and_multi_story_mapping |->
        [Foundation |-> << [substring |-> << "a", "b" >>, grade |-> "Excellent"],
                           [substring |-> << "b" >>, grade |-> "Good"],
                           [substring |-> << "a" >>, grade |-> "Economy"] >>,
         Roofing |-> << [substring |-> << "a" >>, grade |-> "Average"],
                        [substring |-> << "a", "b" >>, grade |-> "Excellent"],
                        [substring |-> << "c" >>, grade |-> "Minimum"] >>,
         Floor |-> << [substring |-> << "b" >>, grade |-> "Excellent"],
                      [substring |-> << "c" >>, grade |-> "Minimum"] >>],
     mph_factory_mapping |->
        [Foundation |-> << [substring |-> << "a" >>, grade |-> "Minimum"] >>]]

\* material texts over the characters a, b, c
MaterialTexts ==
    { << >>, << "a" >>, << "b" >>, << "c" >>, << "a", "b" >>, << "b", "a" >> }

\* selected_materials: a dict from some of the components to texts; Ceiling
\* is in no mapping
EngineMaterials ==
    UNION { [ comps -> MaterialTexts ] :
              comps \in SUBSET { "Foundation", "Roofing", "Floor" } }
    \cup UNION { [ comps -> { << "a" >> } ] :
                   comps \in { { "Ceiling" }, { "Ceiling", "Floor" } } }

call_suggest_grade ==
    \E selected_materials \in EngineMaterials,
       category \in { "Higher Villa", "MPH & Factory Building", "Fuel Station" } :
        Returns([fn |-> "suggest_grade_from_materials",
                 material_mappings |-> MaterialMappings,
                 selected_materials |-> selected_materials, category |-> category],
                suggest_grade_from_materials(MaterialMappings, selected_materials,
                                             category))

\* the tables of the data directory the valuations below run with.  The
\* deduction table has no G3_G4 column, and no minimum completion is listed
\* for "G+4 & above".
EngineData ==
    [building_rates_data |-> CHOOSE t \in RateTables : TRUE,
     material_mappings |-> MaterialMappings,
     component_percentages |->
        [Roofing |-> [ c \in [type_key : { "Single_Storey", "G1_G2" },
                              grade_key : { "Best", "Avg", "Poor" }] |->
                         IF c.grade_key = "Best" THEN Rat(1, 10) ELSE Rat(1, 5) ],
         Finishing |-> [ c \in [type_key : { "Single_Storey", "G1_G2" },
                                grade_key : { "Best", "Avg", "Poor" }] |-> Rat(3, 10) ]],
     minimum_completion_stages |->
        ("Higher Villa" :> Rat(7, 10)) @@ ("G+1-3" :> Rat(3, 5)),
     fuel_station_rates |->
        [site_preparation |-> 2, reinforced_concrete_forecourt |-> 3,
         steel_canopy |-> 5, pump_island |-> 100, ugt_30m3 |-> 7, ugt_50m3 |-> 11],
     coffee_site_rates |->
        [cherry_hopper |-> 4, fermentation_tanks |-> 6, washing_channels |-> 8,
         coffee_drier |-> 9],
     green_house_rates |->
        [greenhouse_cover |-> 2, in_farm_road |-> 30, borehole |-> 4,
         land_preparation |-> 1],
     all_location_data |->
        << [town |-> EngineTown, use |-> "Residential", grade |-> "Good",
            tiers |-> << [min |-> 0, max |-> inf, rate |-> 4] >>] >>,
     elevator_rates |->
        << [capacity |-> 8, stops |-> 4, rate |-> 50],
           [capacity |-> 10, stops |-> 8, rate |-> 90] >>]

\* no selected material, materials that score Excellent, materials that
\* score Economy
BuildingMaterials ==
    { << >>,
      [Foundation |-> << "a", "b" >>, Floor |-> << "b" >>],
      [Foundation |-> << "a" >>] }

\* incomplete_components: a component twice, one the table does not list,
\* and a component four times
IncompleteLists ==
    { << >>, << "Finishing" >>, << "Roofing", "Finishing" >>,
      << "Roofing", "Roofing" >>, << "Plumbing" >>,
      << "Finishing", "Finishing", "Finishing", "Finishing" >> }

\* specialized_components of Fuel Station, Coffee Washing Site, Green House
ComponentDicts ==
    { << >>,
      [num_pump_islands |-> R(4), canopy_area |-> R(320)],
      [site_preparation_area |-> Rat(201, 2), num_ugt_30m3 |-> R(1),
       num_ugt_50m3 |-> R(2), forecourt_area |-> R(10)],
      [cherry_hopper_area |-> R(10), washing_channels_length |-> Rat(5, 2),
       fermentation_tanks_area |-> R(1), coffee_drier_area |-> R(3)],
      [greenhouse_area |-> R(100), borehole_depth |-> R(60),
       in_farm_road_km |-> Rat(1, 2), land_preparation_area |-> R(7)] }

\* buildings of the generic categories
GenericBuildings ==
    [ category : GENERIC_CATEGORIES,
      total_building_area : { R(20) },
      num_floors : { 0, 1, 4 },
      has_basement : BOOLEAN,
      is_under_construction : BOOLEAN,
      incomplete_components : IncompleteLists,
      selected_materials : BuildingMaterials,
      confirmed_grade : { "None", "Good", "Average" },
      specialized_components : { << >> } ]

\* buildings of the specialized categories and of a category that is none
\* of the seven
OtherBuildings ==
    [ category : { "Fuel Station", "Coffee Washing Site", "Green House", "Warehouse" },
      total_building_area : { R(20) },
      num_floors : { 1, 4 },
      has_basement : BOOLEAN,
      is_under_construction : BOOLEAN,
      incomplete_components : { << >>, << "Roofing", "Finishing" >> },
      selected_materials : { << >>, [Foundation |-> << "a", "b" >>] },
      confirmed_grade : { "None", "Good" },
      specialized_components : ComponentDicts ]

call_building_cost ==
    \E b \in GenericBuildings \cup OtherBuildings :
        Returns([fn |-> "building_cost", data |-> EngineData, building |-> b],
                building_cost(EngineData, b))

\* the buildings of whole requests
RequestBuildings ==
    { b \in GenericBuildings :
        /\ b.category \in { "Higher Villa", "Apartment / Condominium" }
        /\ b.num_floors = 1 /\ ~b.has_basement
        /\ b.incomplete_components = << "Roofing", "Finishing" >>
        /\ b.confirmed_grade \in { "None", "Average", "Good" }
        /\ (b.confirmed_grade = "Good" => b.category = "Apartment / Condominium")
        /\ b.selected_materials # << >>
        /\ (b.is_under_construction => b.confirmed_grade = "Average"
                                        /\ b.category = "Higher Villa") }
    \cup { b \in OtherBuildings :
             /\ b.category \in { "Fuel Station", "Warehouse" }
             /\ b.num_floors = 1 /\ ~b.has_basement /\ ~b.is_under_construction
             /\ b.incomplete_components = << >> /\ b.selected_materials = << >>
             /\ b.confirmed_grade = "None"
             /\ b.specialized_components = [num_pump_islands |-> R(4),
                                            canopy_area |-> R(320)] }

EngineRequests ==
    [ buildings : { q \in SeqsUpTo(RequestBuildings, MaxBuildings) : q # << >> },
      special_items : { [has_elevator |-> FALSE, elevator_stops |-> 0],
                        [has_elevator |-> TRUE, elevator_stops |-> 6] },
      property_details : { pd \in EnginePropertyDetails :
                             /\ pd.plot_area \in { R(150), R(5000) }
                             /\ pd.plot_grade = "Good" },
      other_costs : { [fence_percent |-> Zero, septic_percent |-> Zero,
                       external_works_percent |-> Zero, water_tank_cost |-> Zero,
                       consultancy_percent |-> Zero],
                      [fence_percent |-> R(5), septic_percent |-> Rat(5, 2),
                       external_works_percent |-> R(10), water_tank_cost |-> R(120),
                       consultancy_percent |-> R(10)] },
      financial_factors : { [mcf |-> R(1), pef |-> R(1)],
                            [mcf |-> Rat(6, 5), pef |-> Rat(1, 2)] } ]

call_run_full_valuation ==
    \E vd \in EngineRequests :
        Returns([fn |-> "run_full_valuation", data |-> EngineData, valuation_data |-> vd],
                valuation_report(EngineData, vd))

\* the seven categories and floor counts on both sides of 1 and of 4
call_building_type_for_rate ==
    \E category \in GENERIC_CATEGORIES \cup Range(SPECIAL_CATEGORIES),
       num_floors \in -1..12 :
        Returns([fn |-> "building_type_for_rate", category |-> category,
                 num_floors |-> num_floors],
                building_type_for_rate(category, num_floors))

NextEngine ==
    \/ call_location_value_limit
    \/ call_location_value
    \/ call_apartment_cost
    \/ call_full_replacement_cost
    \/ call_location_values
    \/ call_suggest_grade
    \/ call_building_cost
    \/ call_run_full_valuation
    \/ call_building_type_for_rate

SpecEngine == InitEngine /\ [][NextEngine]_vars

\* slots["section_index"] is only ever incremented, never created
SectionIndexNeverStored == ~InSlots("section_index", slots)

(***************************************************************************)
(* Properties                                                              *)
(***************************************************************************)
LastMessage == messages[Len(messages)]

Affirmative(u) == Lower(u) \in { "yes", "y", "proceed", "confirm" }

Negative(u) == Lower(u) \in { "no", "n", "cancel", "stop" }

\* the latest call was process_input taking its collection branch
CollectionTurn == turn.driver = "app" /\ ~turn.confirming

\* the latest call was process_input taking its confirmation branch
ConfirmationTurn == turn.driver = "app" /\ turn.confirming

\* C1: after a reply outside the yes/no vocabulary to a boolean prompt the
\* slot is still unset and the prompt emitted in that turn is the prompt for
\* the same slot.
C1_BooleanRepromptsSameSlot ==
    (CollectionTurn /\ turn.last_asked \in BoolSlots /\ _boolify(turn.input) = "None")
        => /\ slots.v[turn.last_asked] = Absent
           /\ IsQuestion(LastMessage)
           /\ LastMessage.slot = turn.last_asked

\* A required slot that is missing, has been asked, is neither the slot asked
\* last nor the pending choice, and is not the height_meters slot that
\* ask_next_question_node can ask twice: nothing can store it or ask it again.
DeadSlot ==
    \E i \in 1..Len(missing_slots(slots)) :
        LET m == missing_slots(slots)[i] IN
        /\ Mem(m, asked)
        /\ m # LastAsked(asked)
        /\ m # slots.expected.slot
        /\ m # "height_meters"

\* a dead slot stays dead for the rest of the session
DeadSlotIsPermanent == [][DeadSlot /\ turn'.driver # "start" => DeadSlot']_vars

\* C2: a malformed answer is recoverable: the session never gets into a state
\* where a required slot is still missing and no prompt for it will ever be
\* emitted again.
C2_NoSlotLeftUnaskable == ~DeadSlot

\* section_dimensions holds exactly num_sections records, each with a length
\* and a width
SectionsComplete ==
    /\ slots.has_sections
    /\ Len(slots.section_dimensions) = NumSections(slots)
    /\ \A i \in 1..Len(slots.section_dimensions) :
          /\ slots.section_dimensions[i].length # Absent
          /\ slots.section_dimensions[i].width # Absent

\* C3: for Higher Villa and Multi-Story Building, once section_dimensions has
\* been asked and is no longer a missing slot it holds exactly num_sections
\* records with both a length and a width.
C3_SectionLoopCompletes ==
    ( /\ Category(slots) \in { "Higher Villa", "Multi-Story Building" }
      /\ Mem("section_dimensions", asked)
      /\ ~Mem("section_dimensions", missing_slots(slots)) )
        => SectionsComplete

\* C4: in a non-area category, the turn that stores a valid length for a
\* section ends with the width prompt of the same section.
C4_WidthPromptFollowsLength ==
    ( /\ CollectionTurn
      /\ turn.last_asked = "section_dimensions"
      /\ Category(slots) # "Apartment / Condominium"
      /\ slots.awaiting_width = "True" )
        => LastMessage = Question("section_dimensions", "width",
                                  Len(slots.section_dimensions))

\* C5: under process_input, calculate_node runs only in a turn whose reply
\* to the confirmation summary is affirmative, and a confirmation summary is
\* emitted only when no slot is missing.
C5_CalculationOnlyOnAffirmation ==
    /\ (turn.driver = "app" /\ turn.calc) => (turn.confirming /\ Affirmative(turn.input))
    /\ (turn.driver = "app" /\ LastMessage.kind = "confirmation_summary")
          => missing_slots(slots) = << >>

\* C6: _confirmed only ever changes away from absent (UNSET): it never goes
\* from True to False or from False to True.
C6_ConfirmationOnlyLeavesUnset ==
    \A i \in 1..2 :
        turn.confirmed[i] # turn.confirmed[i + 1] => turn.confirmed[i] = Absent

\* C7: after 'no' to the confirmation summary the status is REJECTED, no
\* valuation ran, the last message is not the valuation report, and the next
\* reply goes to the collection branch ("_confirmation" is no longer in asked).
C7_RejectionReturnsToCollection ==
    (ConfirmationTurn /\ Negative(turn.input))
        => /\ slots.confirmed = "False"
           /\ ~turn.calc
           /\ LastMessage.kind # "valuation_summary"
           /\ ~Mem("_confirmation", asked)

\* C8: the asked list never contains a name twice.
C8_AskedHasNoDuplicates == NoDuplicates(asked)

\* C9: whatever text the numeric slots hold, calculate_node returns without
\* raising, and with a text that does not convert it ends with the
\* 'Valuation Failed' message.
C9_CalculateNeverRaises ==
    turn.calc => /\ ~turn.raised
                 /\ CalcConversionRaises(slots) => LastMessage.kind = "valuation_failed"

\* C10: property_valuation_tool returns a string for every schema-valid
\* request: the report when run_full_valuation succeeds, the 'Error in
\* valuation calculation' message when it raises, as it does for an empty
\* buildings list.
C10_ToolNeverPropagates ==
    toolOut # NoOutput =>
        /\ toolOut.kind \in { "report", "error_string" }
        /\ toolOut.kind = "error_string" <=> run_full_valuation(req).raised
        /\ req.buildings = << >> => toolOut.kind = "error_string"

\* the tool has answered a request with no buildings
C10_Witness == toolOut.kind = "error_string" /\ req.buildings = << >>

\* C11: the dialogue never prompts for a plot grade and never stores one: no
\* plot-grade slot is in asked or in a prompt of the turn, and the plot_grade
\* of a request handed to the tool is the value select_plot_grade computes
\* from the request's town, use and plot area.
C11_PlotGradeNeverAsked ==
    /\ ~Mem("plot_grade", asked)
    /\ \A i \in 1..Len(messages) : messages[i].slot # "plot_grade"
    /\ turn.calc /\ ~turn.raised =>
         req.plot_grade = select_plot_grade(PLOT_PRICES, req.prop_town, req.gen_use,
                                            R(req.plot_area))

\* a valuation has run on a request whose plot grade was picked from the table
C11_Witness ==
    /\ turn.calc /\ ~turn.raised
    /\ toolOut.kind = "report"
    /\ req.plot_grade = "Good"

\* C12: while has_elevator is stored as false, elevator_stops is neither in
\* missing_slots nor prompted; while is_under_construction is stored as
\* false, incomplete_components is neither in missing_slots nor prompted.
C12_SuppressedSlotsNotRequired ==
    /\ slots.v["has_elevator"] = "False" =>
         /\ ~Mem("elevator_stops", missing_slots(slots))
         /\ \A i \in 1..Len(messages) :
               IsQuestion(messages[i]) => messages[i].slot # "elevator_stops"
    /\ slots.v["is_under_construction"] = "False" =>
         /\ ~Mem("incomplete_components", missing_slots(slots))
         /\ \A i \in 1..Len(messages) :
               IsQuestion(messages[i]) => messages[i].slot # "incomplete_components"

\* the user has just answered "no" to the elevator question of a building
\* that is not under construction, and the next slot has been prompted
C12_Witness ==
    /\ turn.last_asked = "has_elevator"
    /\ slots.v["has_elevator"] = "False"
    /\ slots.v["is_under_construction"] = "False"
    /\ IsQuestion(LastMessage)

\* C13: while a pending choice is active, a reply that is an integer k with
\* 1 <= k <= len(options) stores options[k-1] under the pending slot and
\* clears the pending choice; any other reply stores nothing, changes no
\* collected slot and leaves the pending choice active.
C13_PendingChoiceRequiresIndex ==
    [][(slots.expected # NoChoice /\ turn'.driver = "app" /\ ~turn'.confirming) =>
         LET u == turn'.input
             st1 == extract_info_node(Work(<< UserMsg(u) >>, slots, asked, req, toolOut))
         IN IF IsDigit(u) /\ 1 <= IntVal(u) /\ IntVal(u) <= Len(slots.expected.choices)
            THEN st1.slots = [Put(slots, slots.expected.slot,
                                  slots.expected.choices[IntVal(u)])
                                EXCEPT !.expected = NoChoice]
            ELSE st1.slots = slots]_vars

\* number of assistant messages in a transcript tail
RECURSIVE AssistantCount(_)
AssistantCount(ms) ==
    IF ms = << >> THEN 0
    ELSE (IF Head(ms).role = "assistant" THEN 1 ELSE 0) + AssistantCount(Tail(ms))

\* C14: every processed user turn that produces output appends exactly one
\* assistant message to the transcript.
C14_OneAssistantMessagePerTurn ==
    (turn.driver = "app" /\ ~turn.raised) => AssistantCount(messages) <= 1

\* the latest call of calculate_location_value_limit had ccw > 0
LimitCall == call.fn = "calculate_location_value_limit" /\ RLt(Zero, call.ccw)

\* C15: for CCW > 0 and a plot area above 2000 and at most 10000, whole or
\* not, calculate_location_value_limit returns 3.5*CCW - CCW*area/4000.
C15_LimitInterpolatesAbove2000 ==
    (LimitCall /\ RLt(R(2000), call.plot_area) /\ RLe(call.plot_area, R(10000))) =>
        ret = RSub(RMul(Rat(7, 2), call.ccw),
                   RMul(RMul(call.ccw, call.plot_area), Rat(1, 4000)))

\* C16: for CCW > 0, calculate_location_value_limit returns 3*CCW for every
\* plot area up to and including 2000, and 1*CCW for every plot area above
\* 10000.
C16_LimitOutsideInterpolation ==
    LimitCall =>
        /\ RLe(call.plot_area, R(2000)) => ret = RMul(R(3), call.ccw)
        /\ RLt(R(10000), call.plot_area) => ret = call.ccw

\* the limit has been computed for a plot area of exactly 2000
C16_Witness ==
    /\ LimitCall
    /\ call.plot_area = R(2000)
    /\ ret = RMul(R(3), call.ccw)

\* C17: in every result of run_full_valuation the final applied location
\* value is min(calculated location value, location value limit): it is one
\* of the two and exceeds neither.
C17_FinalLocationValueIsMin ==
    call.fn = "location_values" =>
        /\ ret.final_applied_location_value
             = RMin(ret.calculated_location_value, ret.location_value_limit)
        /\ RLe(ret.final_applied_location_value, ret.location_value_limit)
        /\ RLe(ret.final_applied_location_value, ret.calculated_location_value)

\* the cap has cut a larger calculated location value
C17_Witness ==
    /\ call.fn = "location_values"
    /\ RLt(ret.location_value_limit, ret.calculated_location_value)
    /\ ret.final_applied_location_value = ret.location_value_limit
    /\ RLt(Zero, ret.location_value_limit)

\* the path town/use/grade of the latest call is a path of its location table
PathPresent ==
    \E i \in 1..Len(call.all_location_data) :
        /\ call.all_location_data[i].town = call.town
        /\ call.all_location_data[i].use = call.use
        /\ call.all_location_data[i].grade = call.grade

\* C18: calculate_location_value returns 3000*area when the town/use/grade
\* path is absent from the location table; otherwise rate*area for the first
\* tier whose inclusive range contains the area, and 0 when the path exists
\* but no tier contains the area.
C18_LocationValueByPath ==
    call.fn = "calculate_location_value" =>
        LET tiers == GradeTable(call.all_location_data, call.town, call.use, call.grade)
            hit == { i \in 1..Len(tiers) : TierContains(tiers[i], call.plot_area) }
        IN IF ~PathPresent THEN ret = RMul(R(3000), call.plot_area)
           ELSE IF hit = {} THEN ret = Zero
           ELSE \E i \in hit : /\ \A j \in hit : i <= j
                               /\ ret = RMul(R(tiers[i].rate), call.plot_area)

\* the same with a path whose tier table is empty counted as absent
LocationValueByNonEmptyPath ==
    call.fn = "calculate_location_value" =>
        LET tiers == GradeTable(call.all_location_data, call.town, call.use, call.grade)
            hit == { i \in 1..Len(tiers) : TierContains(tiers[i], call.plot_area) }
        IN IF tiers = << >> THEN ret = RMul(R(3000), call.plot_area)
           ELSE IF hit = {} THEN ret = Zero
           ELSE \E i \in hit : /\ \A j \in hit : i <= j
                               /\ ret = RMul(R(tiers[i].rate), call.plot_area)

\* the deduction of the claim for floor f, in thousandths
ClaimedDeduction(f) ==
    IF f = 1 THEN 25
    ELSE IF f > 1 THEN (IF 25 - 15 * (f - 1) < -100 THEN -100 ELSE 25 - 15 * (f - 1))
    ELSE 0

\* C19: calculate_apartment_cost(base, f) = base * (1 - d) with d = 0.025 for
\* f = 1, d = 0.025 - 0.015*(f-1) clamped below at -0.10 for f > 1 and d = 0
\* for f <= 0; so d = -0.035 at floor 5 and the result never exceeds
\* 1.10 * base.
C19_ApartmentFloorDeduction ==
    call.fn = "calculate_apartment_cost" =>
        /\ ret = RMul(call.base_cost,
                      Rat(1000 - ClaimedDeduction(call.floor_number), 1000))
        /\ call.floor_number = 5 => ret = RMul(call.base_cost, Rat(1035, 1000))
        /\ RLe(ret, RMul(call.base_cost, Rat(110, 100)))

\* a floor high enough for the clamp to apply has been costed
C19_Witness ==
    /\ call.fn = "calculate_apartment_cost"
    /\ call.floor_number = 12
    /\ call.base_cost = R(1000)
    /\ ret = R(1100)

\* the [min, max] rates of the latest call's building: the row of its rate
\* bracket for the resolved grade, or the Average row when the bracket has
\* no such grade
RateRow ==
    LET building_type == BuildingTypeForRate(call.building.category,
                                             call.building.num_floors)
        item == CHOOSE x \in Range(call.building_rates_data) : x.type = building_type
    IN IF call.grade \in DOMAIN item.grades THEN item.grades[call.grade]
       ELSE item.grades["Average"]

\* C20: for a generic-category building the full replacement cost is
\* area * midpoint(rate min, rate max) * (num_floors + 1), or * 1 for
\* Apartment / Condominium, and is multiplied by 1.25 exactly when
\* has_basement is true; a Higher Villa with 1 floor is costed at
\* area * midpoint * 2.
C20_FullReplacementCost ==
    call.fn = "full_replacement_cost" =>
        LET b == call.building
            plain == RMul(RMul(b.total_building_area,
                               Rat(RateRow.min + RateRow.max, 2)),
                          R(IF b.category = "Apartment / Condominium"
                            THEN 1 ELSE b.num_floors + 1))
        IN /\ b.has_basement => ret = RMul(plain, Rat(125, 100))
           /\ ~b.has_basement => ret = plain
           /\ (b.category = "Higher Villa" /\ b.num_floors = 1 /\ ~b.has_basement) =>
                ret = RMul(RMul(b.total_building_area,
                                Rat(RateRow.min + RateRow.max, 2)), R(2))

\* a Higher Villa of 300 sqm with 1 floor and Good rates 10..15 has been costed
C20_Witness ==
    /\ call.fn = "full_replacement_cost"
    /\ call.building.category = "Higher Villa"
    /\ call.building.num_floors = 1
    /\ ~call.building.has_basement
    /\ call.building.total_building_area = R(300)
    /\ call.grade = "Good"
    /\ ret = R(7500)

\* the score the mapping gives the material chosen for component c: the
\* score of the entry no earlier entry of which is contained in the text;
\* -1 when the component is not chosen, not mapped or matches nothing
ClaimedScore(c) ==
    LET mapping == get_mapping_by_category(call.material_mappings, call.category)
        text == call.selected_materials[c]
        first == { i \in 1..Len(mapping[c]) :
                     /\ Contains(mapping[c][i].substring, text)
                     /\ \A j \in 1..(i - 1) : ~Contains(mapping[c][j].substring, text) }
    IN IF c \notin DOMAIN call.selected_materials \/ c \notin DOMAIN mapping \/ first = {}
       THEN -1
       ELSE LET g == mapping[c][CHOOSE i \in first : TRUE].grade IN
            CASE g = "Excellent" -> 4 [] g = "Good" -> 3 [] g = "Average" -> 2
              [] g = "Economy" -> 1 [] g = "Minimum" -> 0

\* C21: suggest_grade_from_materials returns Average when no component
\* matches; otherwise the scores Excellent=4 .. Minimum=0 of the matched
\* components, one per component from the first mapping substring contained
\* in its material, are averaged and the result is Excellent if the average
\* is >= 3.5, Good if >= 2.5, Average if >= 1.5, Economy if >= 0.5, else
\* Minimum.
C21_GradeFromMaterials ==
    call.fn = "suggest_grade_from_materials" =>
        LET comps == { "Foundation", "Roofing", "Floor", "Ceiling" }
            matched == { c \in comps : ClaimedScore(c) >= 0 }
            n == Cardinality(matched)
            score(c) == IF c \in matched THEN ClaimedScore(c) ELSE 0
            total == score("Foundation") + score("Roofing") + score("Floor")
                     + score("Ceiling")
        IN ret = IF n = 0 THEN "Average"
                 ELSE IF 2 * total >= 7 * n THEN "Excellent"
                 ELSE IF 2 * total >= 5 * n THEN "Good"
                 ELSE IF 2 * total >= 3 * n THEN "Average"
                 ELSE IF 2 * total >= n THEN "Economy"
                 ELSE "Minimum"

\* Foundation "ba" scores Good by its first contained substring and Floor
\* "b" scores Excellent: the average is exactly 3.5
C21_Witness ==
    /\ call.fn = "suggest_grade_from_materials"
    /\ call.category = "Higher Villa"
    /\ DOMAIN call.selected_materials = { "Foundation", "Floor" }
    /\ call.selected_materials["Foundation"] = << "b", "a" >>
    /\ call.selected_materials["Floor"] = << "b" >>
    /\ ret = "Excellent"

\* the deduction percentages of the incomplete components of the latest
\* call's building, summed: the table's entry for the component in the
\* column of the building's bracket and grade bucket, nothing for a
\* component or a column the table does not have
DeductionSum ==
    LET b == call.building
        table == call.data.component_percentages
        column == ColumnKey(BuildingTypeForRate(b.category, b.num_floors), ret.grade)
        entry(c) == IF c \in DOMAIN table /\ column \in DOMAIN table[c]
                    THEN table[c][column] ELSE Zero
    IN RSum([ i \in 1..Len(b.incomplete_components) |-> entry(b.incomplete_components[i]) ])

Priced(key, unit_rate) ==
    IF key \in DOMAIN call.building.specialized_components
    THEN RMul(call.building.specialized_components[key], R(unit_rate))
    ELSE Zero

\* the sum over the category's fixed component set
SpecializedSum ==
    LET fuel == call.data.fuel_station_rates
        coffee == call.data.coffee_site_rates
        green == call.data.green_house_rates
    IN CASE call.building.category = "Fuel Station" ->
              RSum(<< Priced("site_preparation_area", fuel.site_preparation),
                      Priced("forecourt_area", fuel.reinforced_concrete_forecourt),
                      Priced("canopy_area", fuel.steel_canopy),
                      Priced("num_pump_islands", fuel.pump_island),
                      Priced("num_ugt_30m3", fuel.ugt_30m3),
                      Priced("num_ugt_50m3", fuel.ugt_50m3) >>)
         [] call.building.category = "Coffee Washing Site" ->
              RSum(<< Priced("cherry_hopper_area", coffee.cherry_hopper),
                      Priced("fermentation_tanks_area", coffee.fermentation_tanks),
                      Priced("washing_channels_length", coffee.washing_channels),
                      Priced("coffee_drier_area", coffee.coffee_drier) >>)
         [] call.building.category = "Green House" ->
              RSum(<< Priced("greenhouse_area", green.greenhouse_cover),
                      Priced("in_farm_road_km", green.in_farm_road),
                      Priced("borehole_depth", green.borehole),
                      Priced("land_preparation_area", green.land_preparation) >>)

\* C23: the cost of a Fuel Station, Coffee Washing Site or Green House is
\* the sum over the category's fixed component set of quantity * unit rate,
\* absent components counting as 0, and buildings that differ only in
\* selected materials, confirmed grade, floor count, basement flag or
\* under-construction data have the same cost.
C23_SpecializedCost ==
    (call.fn = "building_cost" /\ call.building.category \in Range(SPECIAL_CATEGORIES)) =>
        /\ ret.building_cost = SpecializedSum
        /\ \A b2 \in OtherBuildings :
              (/\ b2.category = call.building.category
               /\ b2.specialized_components = call.building.specialized_components)
              => building_cost(call.data, b2).building_cost = ret.building_cost

\* a Fuel Station with 4 pump islands and a canopy of 320, given a basement,
\* a confirmed grade and 4 floors, costs 4 * 100 + 320 * 5
C23_Witness ==
    /\ call.fn = "building_cost"
    /\ call.building.category = "Fuel Station"
    /\ call.building.specialized_components =
          [num_pump_islands |-> R(4), canopy_area |-> R(320)]
    /\ call.building.has_basement
    /\ call.building.is_under_construction
    /\ call.building.confirmed_grade = "Good"
    /\ call.building.num_floors = 4
    /\ ret.building_cost = R(2000)

C25_OtherCostsApartmentExempt ==
    call.fn = "run_full_valuation" =>
        LET vd == call.valuation_data
            oc == vd.other_costs
        IN ret.total_other_costs =
              IF \E i \in 1..Len(vd.buildings) :
                    vd.buildings[i].category = "Apartment / Condominium"
              THEN Zero
              ELSE RAdd(RMul(ret.total_building_cost,
                             Percent(RAdd(RAdd(oc.fence_percent, oc.septic_percent),
                                          oc.external_works_percent))),
                        oc.water_tank_cost)

\* what lines 248-256 do: the exemption looks at the first building only
OtherCostsByFirstBuilding ==
    call.fn = "run_full_valuation" =>
        LET vd == call.valuation_data
            oc == vd.other_costs
        IN ret.total_other_costs =
              IF vd.buildings[1].category = "Apartment / Condominium"
              THEN Zero
              ELSE RAdd(RMul(ret.total_building_cost,
                             Percent(RAdd(RAdd(oc.fence_percent, oc.septic_percent),
                                          oc.external_works_percent))),
                        oc.water_tank_cost)

\* the latest call costed a building whose category is none of the seven
UnknownCategoryCall ==
    /\ call.fn = "building_cost"
    /\ call.building.category \notin GENERIC_CATEGORIES \cup Range(SPECIAL_CATEGORIES)

\* C26: a building whose category is not one of the seven known categories
\* is costed with the default rate bracket: it contributes area * rate *
\* (floors + 1) of the bracket, a non-zero amount whenever area and rate are
\* positive.
C26_UnknownCategoryCosted ==
    UnknownCategoryCall =>
        LET b == call.building
            rate == get_building_grade_rate(call.data.building_rates_data,
                        BuildingTypeForRate(b.category, b.num_floors),
                        ResolvedGrade(call.data.material_mappings, b))
        IN /\ ret.building_cost = RMul(RMul(b.total_building_area, rate),
                                       R(b.num_floors + 1))
           /\ (RLt(Zero, b.total_building_area) /\ RLt(Zero, rate))
                => ret.building_cost # Zero

\* what lines 163-216 do: no branch matches and building_cost stays 0
UnknownCategoryCostsNothing ==
    UnknownCategoryCall => ret.building_cost = Zero /\ ~ret.warned

\* the base fields the claim C27 requires of a specialized category
SpecialBaseFields == { "gen_use", "plot_area_sqm", "mcf", "pef" }

\* C27: for a specialized category the required slots include gen_use,
\* plot_area_sqm, mcf and pef besides the town and the component fields, so
\* the session does not reach the confirmation summary before they are
\* collected.
C27_SpecialCategoryBaseFields ==
    IsSpecial(Category(slots)) =>
        /\ \A s \in SpecialBaseFields : Mem(s, current_required_slots(slots))
        /\ (messages # << >> /\ LastMessage.kind = "confirmation_summary")
              => \A s \in SpecialBaseFields : slots.v[s] # Absent

\* what current_required_slots does for a specialized category: the town
\* and the category's component fields, nothing else
SpecialRequiredSlots ==
    IsSpecial(Category(slots)) =>
        current_required_slots(slots) =
            << "prop_town" >> \o CATEGORY_SPECIAL_SLOTS(Category(slots))

\* a specialized session is at its confirmation summary with no use type,
\* plot area or financial factor collected
SpecialConfirmedWithoutBaseFields ==
    /\ IsSpecial(Category(slots))
    /\ messages # << >> /\ LastMessage.kind = "confirmation_summary"
    /\ \A s \in SpecialBaseFields : slots.v[s] = Absent

\* the slots a specialized category is never to be prompted for
GenericOnlySlots ==
    { "length", "width", "num_sections", "section_dimensions", "num_floors",
      "has_basement", "has_elevator", "elevator_stops" } \cup MaterialSlots

\* position of slot s in the component list of category cat, 0 if not in it
ComponentIndex(cat, s) ==
    LET hit == { k \in 1..Len(CATEGORY_SPECIAL_SLOTS(cat)) :
                   CATEGORY_SPECIAL_SLOTS(cat)[k] = s }
    IN IF hit = {} THEN 0 ELSE CHOOSE k \in hit : TRUE

\* C28: once the category is a specialized category, no prompt of a turn is
\* for length, width, num_sections, section_dimensions, num_floors,
\* has_basement, has_elevator, elevator_stops or a material__ slot, and the
\* component fields are prompted in their listed order: when a component is
\* prompted, every component listed before it has been prompted already.
C28_SpecialCategoryPrompts ==
    (IsSpecial(Category(slots)) /\ turn.driver = "app") =>
        \A i \in 1..Len(messages) :
            IsQuestion(messages[i]) =>
                /\ messages[i].slot \notin GenericOnlySlots
                /\ \A k \in 1..(ComponentIndex(Category(slots), messages[i].slot) - 1) :
                      Mem(CATEGORY_SPECIAL_SLOTS(Category(slots))[k], asked)

\* the fourth component of a Fuel Station has just been prompted
C28_Witness ==
    /\ Category(slots) = "Fuel Station"
    /\ turn.driver = "app"
    /\ IsQuestion(LastMessage)
    /\ LastMessage.slot = "num_pump_islands"
    /\ slots.v["canopy_area"] # Absent

\* a valuation request has been built for a building of a generic category
GenericRequestBuilt ==
    /\ turn.calc /\ ~turn.raised
    /\ req.buildings # << >>
    /\ Category(slots) \in GENERIC_CATEGORIES

\* C29: for every generic category the total building area of the request
\* is the sum over the collected section records of length * width, or of
\* area for the area-based records of Apartment / Condominium; it is not
\* taken from the plot area or from a fixed default.
C29_TotalAreaFromSections ==
    GenericRequestBuilt =>
        req.buildings[1].total_building_area =
            SumSections(slots.section_dimensions,
                        Category(slots) = "Apartment / Condominium")

\* what _collect_specialized_components does for the two section-based
\* categories
TotalAreaOfVillaAndMultiStory ==
    (GenericRequestBuilt /\ Category(slots) \in { "Higher Villa", "Multi-Story Building" })
        => req.buildings[1].total_building_area =
              SumSections(slots.section_dimensions, FALSE)

\* what it does for MPH & Factory Building: the plot area
TotalAreaOfFactoryIsPlotArea ==
    (GenericRequestBuilt /\ Category(slots) = "MPH & Factory Building")
        => req.buildings[1].total_building_area = req.plot_area

\* a Higher Villa request has been built from collected sections
VillaRequestBuilt ==
    /\ GenericRequestBuilt
    /\ Category(slots) = "Higher Villa"

\* the grade line 182 resolves for the first building of the latest request
FirstBuildingGrade ==
    ResolvedGrade(call.data.material_mappings, call.valuation_data.buildings[1])

\* C30: for an Apartment / Condominium request the plot area used for the
\* location value is the request's plot area scaled by 0.8 when the grade
\* resolved for the building (the confirmed grade, or the grade inferred
\* from the materials when none is confirmed) is Excellent or Good and by
\* 0.4 otherwise; for every other category the plot area is not scaled.
C30_ApartmentPlotScaling ==
    call.fn = "run_full_valuation" =>
        LET vd == call.valuation_data IN
        ret.plot_area =
            IF vd.buildings[1].category = "Apartment / Condominium"
            THEN RMul(vd.property_details.plot_area,
                      IF FirstBuildingGrade \in { "Excellent", "Good" }
                      THEN Rat(8, 10) ELSE Rat(4, 10))
            ELSE vd.property_details.plot_area

\* what lines 234-237 do: the factor follows the confirmed grade alone
PlotScalingByConfirmedGrade ==
    call.fn = "run_full_valuation" =>
        LET vd == call.valuation_data IN
        ret.plot_area =
            IF vd.buildings[1].category = "Apartment / Condominium"
            THEN RMul(vd.property_details.plot_area,
                      IF vd.buildings[1].confirmed_grade \in { "Excellent", "Good" }
                      THEN Rat(8, 10) ELSE Rat(4, 10))
            ELSE vd.property_details.plot_area

\* C31: Higher Villa always uses the single-story/villa bracket whatever the
\* floor count; every other generic category uses G+1/G+2 for 1 to 3 floors,
\* G+3/G+4 for 4 or more floors and the single-story bracket below 1 floor;
\* a specialized category selects no bracket.
C31_RateBracketSelection ==
    call.fn = "building_type_for_rate" =>
        /\ call.category = "Higher Villa" => ret = "Single Story Building (higher Villa)"
        /\ call.category \in GENERIC_CATEGORIES \ { "Higher Villa" } =>
              /\ call.num_floors \in 1..3 => ret = "G+1 and G+2"
              /\ call.num_floors >= 4 => ret = "G+3 and G+4"
              /\ call.num_floors < 1 => ret = "Single Story Building (higher Villa)"
        /\ call.category \in Range(SPECIAL_CATEGORIES) => ret = "None"

\* a Higher Villa of 4 floors has been given the single-story bracket
C31_Witness ==
    /\ call.fn = "building_type_for_rate"
    /\ call.category = "Higher Villa"
    /\ call.num_floors = 4
    /\ ret = "Single Story Building (higher Villa)"

\* the generic categories whose cost depends on the floor count
FloorDependentCategories ==
    { "Multi-Story Building", "MPH & Factory Building", "Apartment / Condominium" }

\* C32: num_floors is asked for Multi-Story Building, MPH & Factory Building
\* and Apartment / Condominium, so the floor count of the request built for
\* these categories is the user's answer and not a default.
C32_FloorCountAsked ==
    (GenericRequestBuilt /\ Category(slots) \in FloorDependentCategories) =>
        /\ slots.v["num_floors"] # Absent
        /\ req.buildings[1].num_floors = NumVal(slots.v["num_floors"])

\* what current_required_slots and calculate_node do: only Multi-Story
\* Building is asked, the other categories are valued with 1 floor
FloorCountOnlyForMultiStory ==
    /\ Category(slots) # "Multi-Story Building" =>
          /\ ~Mem("num_floors", current_required_slots(slots))
          /\ \A i \in 1..Len(messages) : messages[i].slot # "num_floors"
    /\ (GenericRequestBuilt /\ slots.v["num_floors"] = Absent) =>
          req.buildings[1].num_floors = 1

\* C33: after a valuation has been computed the asked list is empty and the
\* next user input is answered by the first question of a fresh round, not
\* by a confirmation summary built from the previous round's slots.
C33_NewRoundStartsFresh ==
    [][(turn.driver = "app" /\ turn.calc /\ ~turn.raised /\ turn'.driver = "app") =>
          /\ asked = << >>
          /\ messages'[Len(messages')] = FirstQuestion.messages[1]
          /\ messages'[Len(messages')].kind # "confirmation_summary"]_vars

\* what process_input does with the input that follows a valuation: the
\* slots of the previous round are all still stored, nothing is missing and
\* the reply is the confirmation summary or another valuation
NextRoundReusesSlots ==
    [][(turn.driver = "app" /\ turn.calc /\ ~turn.raised /\ turn'.driver = "app") =>
          /\ asked = << >>
          /\ messages'[Len(messages')].kind \in { "confirmation_summary",
                                                  "valuation_summary", "valuation_failed" }]_vars

\* C34: whenever a pending choice is set, its slot is the last element of
\* asked, so a numeric reply to a free-text prompt is never bound to an
\* earlier choice slot.
C34_PendingChoiceIsLastAsked ==
    slots.expected # NoChoice => slots.expected.slot = LastAsked(asked)

\* C35: once collateral_type is 'car' in any letter case, every later turn
\* leaves the collected slots unchanged, runs no valuation, and its only
\* reply is the 'in development' message: no slot prompt and no
\* confirmation summary.
C35_CarEndsTheFlow ==
    [][(IsCar(slots) /\ turn'.driver = "app") =>
          /\ slots' = slots
          /\ ~turn'.calc
          /\ messages'[Len(messages')] = Say("car_in_development")
          /\ \A i \in 1..Len(messages') :
                messages'[i].role = "assistant" =>
                    messages'[i] = Say("car_in_development")]_vars

\* a turn taken after Car was chosen has answered with the 'in development'
\* message
C35_Witness ==
    /\ IsCar(slots)
    /\ turn.driver = "app"
    /\ turn.last_asked = Absent
    /\ LastMessage = Say("car_in_development")

\* the deduction table of the latest call has every entry in [0, 1]
DeductionsWithinUnit ==
    \A component \in DOMAIN call.data.component_percentages :
        \A c \in DOMAIN call.data.component_percentages[component] :
            /\ RLe(Zero, call.data.component_percentages[component][c])
            /\ RLe(call.data.component_percentages[component][c], R(1))

\* C36: with every table entry in [0, 1], the completed fraction that
\* calculate_under_construction_value returns lies in [0, 1] and the
\* completed cost between 0 and the full cost, for every list of incomplete
\* components, repeated names included; the building cost is never negative.
C36_CompletedFractionWithinUnit ==
    (/\ call.fn = "building_cost"
     /\ call.building.category \in GENERIC_CATEGORIES
     /\ call.building.is_under_construction
     /\ DeductionsWithinUnit) =>
        LET done == calculate_under_construction_value(
                        call.data.component_percentages, ret.full,
                        BuildingTypeForRate(call.building.category,
                                            call.building.num_floors),
                        ret.grade, call.building.incomplete_components)
        IN /\ RLe(Zero, done[2]) /\ RLe(done[2], R(1))
           /\ RLe(Zero, ret.completed) /\ RLe(ret.completed, ret.full)
           /\ RLe(Zero, ret.building_cost)

\* what the code does: nothing clamps 1 - sum, so a list whose deductions
\* add up to more than 1 gives a negative cost; the cost never exceeds the
\* full cost
CompletedCostAtMostFull ==
    (/\ call.fn = "building_cost"
     /\ call.building.category \in GENERIC_CATEGORIES
     /\ call.building.is_under_construction) =>
        /\ RLe(ret.completed, ret.full)
        /\ ret.completed = RMul(ret.full, RSub(R(1), DeductionSum))

\* calculate_node called the tool and the tool returned the 'Error in
\* valuation calculation' string
ToolReturnedErrorString ==
    turn.calc /\ ~turn.raised /\ toolOut.kind = "error_string"

EngineFailureShownAsSummary ==
    ToolReturnedErrorString =>
        messages = << [Say("valuation_summary") EXCEPT !.part = "placeholders"],
                      [Say("valuation_summary") EXCEPT !.part = "placeholders"] >>

\* C38: in the CLI loop, an affirmative reply to the confirmation summary
\* runs calculate_node; the loop does not answer it with another summary.
C38_CliYesRunsValuation ==
    (/\ turn.driver = "cli"
     /\ turn.confirming
     /\ turn.last_asked = "_confirmation"
     /\ Affirmative(turn.input)) =>
        /\ turn.calc
        /\ LastMessage.kind # "confirmation_summary"

\* what the code does: nothing in the loop sets _confirmed, so
\* should_calculate never returns CALC, calculate_node never runs, and every
\* reply to a summary is answered with another summary
CliLoopNeverCalculates ==
    turn.driver = "cli" =>
        /\ ~turn.calc
        /\ slots.confirmed = Absent
        /\ (turn.confirming /\ ~turn.raised) => LastMessage.kind = "confirmation_summary"

\* the record lines 437-438 and 683-684 store without asking; no reply of
\* the modelled user is "100", so a record that holds it was not typed
DefaultApartmentSections == << [EmptySection EXCEPT !.area = "100"] >>

\* an Apartment / Condominium session has reached the confirmation summary
\* or the valuation
ApartmentSessionComplete ==
    /\ turn.driver = "app"
    /\ Category(slots) = "Apartment / Condominium"
    /\ \/ LastMessage.kind = "confirmation_summary"
       \/ turn.calc /\ ~turn.raised

\* C39: in an Apartment / Condominium session the area of each section is
\* asked before the confirmation, and the total building area of the
\* request is the sum of the areas the user gave, not the default of 100.
C39_ApartmentSectionsAsked ==
    ApartmentSessionComplete =>
        /\ slots.has_sections
        /\ slots.section_dimensions # DefaultApartmentSections
        /\ (turn.calc /\ ~turn.raised) =>
              /\ req.buildings[1].total_building_area =
                    SumSections(slots.section_dimensions, TRUE)
              /\ req.buildings[1].total_building_area # 100

\* what the code does: once the category is Apartment / Condominium no
\* section prompt is emitted, the stored record is the default one, and the
\* request carries a total building area of 100
ApartmentAreaIsDefault ==
    (turn.driver = "app" /\ Category(slots) = "Apartment / Condominium") =>
        /\ \A i \in 1..Len(messages) :
              IsQuestion(messages[i]) =>
                  messages[i].slot \notin { "num_sections", "section_dimensions" }
        /\ slots.has_sections => slots.section_dimensions = DefaultApartmentSections
        /\ (turn.calc /\ ~turn.raised) => req.buildings[1].total_building_area = 100

\* C40: when the aggregate construction cost CCW (building costs plus
\* elevator cost) is 0, the location value limit is 0 for every plot area,
\* and the final applied location value is 0 whenever the calculated
\* location value is not negative, whatever the town, use, plot grade and
\* plot area.
C40_ZeroCostZeroLocationValue ==
    /\ (call.fn = "calculate_location_value_limit" /\ call.ccw = Zero) => ret = Zero
    /\ (call.fn = "location_values" /\ call.ccw = Zero) =>
          /\ ret.location_value_limit = Zero
          /\ RLe(Zero, ret.calculated_location_value) =>
                ret.final_applied_location_value = Zero
    /\ (call.fn = "run_full_valuation" /\ ret.total_building_cost = Zero) =>
          /\ ret.location_value_limit = Zero
          /\ RLe(Zero, ret.calculated_location_value) =>
                ret.final_applied_location_value = Zero

\* a plot with a positive calculated location value and no construction
\* cost is applied a location value of 0
C40_Witness ==
    /\ call.fn = "location_values"
    /\ call.ccw = Zero
    /\ RLt(Zero, ret.calculated_location_value)
    /\ ret.final_applied_location_value = Zero

\* a whole request whose only building costs nothing
ZeroCostRequestValued ==
    /\ call.fn = "run_full_valuation"
    /\ ret.total_building_cost = Zero
    /\ RLt(Zero, ret.calculated_location_value)
    /\ ret.final_applied_location_value = Zero

====
